---- MODULE Spec2Model ----
(***************************************************************************)
(* Order lifecycle, fee computation and dual-target persistence of the     *)
(* payment-link dashboard.                                                 *)
(*                                                                         *)
(*   src/unnamed/part_000              the remote service (express +       *)
(*                                     mongoose): the authoritative target *)
(*   src/types.ts (from line 81)       db, the persistence gateway, with   *)
(*                                     its localStorage fallback           *)
(*   src/components/AdminDashboard.tsx the dashboard handlers that call db *)
(*                                                                         *)
(* Money is counted in cents (R$ 10,00 = 1000).  An optional field that is *)
(* undefined, and therefore left out of a JSON body, holds NoVal.  Records *)
(* carry the fields of the Order and Store interfaces; the _id and __v     *)
(* that mongoose adds to a document are left out.  A "maybe" result is a   *)
(* sequence of length 0 (undefined / null) or 1.                           *)
(***************************************************************************)
EXTENDS Integers, Sequences, FiniteSets, TLC

VARIABLES
    remoteOrders,   \* the remote Order collection, in insertion order
    remoteStores,   \* the remote Store collection, in insertion order
    localOrders,    \* the array stored under DB_KEY_ORDERS in localStorage
    localStores,    \* the array stored under DB_KEY_STORES in localStorage
    now,            \* the clock read by new Date()
    last,           \* the gateway call or handler run that completed last
    prev,           \* the one that completed before it
    amount,         \* AdminDashboard state: the text of the amount field
    description,    \* AdminDashboard state: the text of the description field
    feeSimulation,  \* AdminDashboard state: null or {fee, net, isValid, message}
    simulationPending, \* the effect on [amount] is scheduled and has not run
    selectedStore,  \* AdminDashboard state: null or the store entered
    metrics,        \* AdminDashboard state: the summary shown
    orders,         \* AdminDashboard state: the orders shown
    stores,         \* AdminDashboard state: the stores listed
    newStoreName,   \* AdminDashboard state: the text of the store-name field
    calls,          \* the gateway call each caller has in flight or completed
    timers          \* the intervals of the data refresh cycle that are active

dbVars == <<remoteOrders, remoteStores, localOrders, localStores>>
uiVars == <<amount, description, feeSimulation, simulationPending, selectedStore,
            metrics, orders, stores, newStoreName, timers>>
vars == <<remoteOrders, remoteStores, localOrders, localStores, now, last, prev,
          amount, description, feeSimulation, simulationPending, selectedStore,
          metrics, orders, stores, newStoreName, calls, timers>>

(***************************************************************************)
(* Bounds of the model.                                                    *)
(***************************************************************************)
\* Calls made in one behaviour of Spec.
MaxCalls == 3

\* Calls made in one behaviour of SpecGateway.
MaxGatewayCalls == 2

\* Calls and handler runs in one behaviour of SpecDashboard.
MaxDashboardCalls == 2

\* Amounts typed in SpecFee lie within this many cents of a threshold.
FeeWindow == 5

(***************************************************************************)
(* Constants of the program, in cents.                                     *)
(***************************************************************************)
MinAmount == 1000

MaxAmount == 600000

FlatFeeBelow == 5000

\* The clock when the dashboard starts; the orders below were created earlier.
StartTime == 2 + 1

NoVal == "<absent>"

OrderStatus == {"pending", "completed", "expired", "cancelled", "refunded"}

OrderIds == {"o1", "o2"}

StoreIds == {"s1", "s2"}

\* The scope of a listing or a summary: a store id, or none (NoVal).
Scopes == StoreIds \cup {NoVal}

MkStore(id, name, apiKey, feePercent, feeFixed, created) ==
    [id |-> id, name |-> name, description |-> NoVal, apiKey |-> apiKey,
     pixFeePercentage |-> feePercent, pixFeeFixed |-> feeFixed, createdAt |-> created]

\* The stores handed to db.createStore, as handleCreateStore builds them.
StoreInputs ==
    { MkStore("s1", "Loja 1", NoVal, << >>, << >>, 1),
      MkStore("s2", "Loja 2", NoVal, << >>, << >>, 2) }

\* The stores handed to db.updateStore, as handleSaveStoreSettings builds them
\* (fees in hundredths: 0.99 % and R$ 0,50).
StoreUpdates ==
    { MkStore("s1", "Loja 1", "key-1", <<99>>, <<50>>, 1),
      MkStore("s2", "Loja 2", "", <<0>>, <<0>>, 2) }

OptionalOrderFields ==
    {"store_id", "store_name", "customer_name", "customer_address", "pixgo_payment_id"}

\* customer_name stands for the customer fields the remote schema knows
\* (name, cpf, email, phone), pixgo_payment_id for the gateway fields.
MkOrder(id, cents, text, status, storeId, storeName, cname, caddr, pay, created) ==
    [id |-> id, amount |-> cents, description |-> text, status |-> status,
     store_id |-> storeId, store_name |-> storeName,
     customer_name |-> cname, customer_address |-> caddr, pixgo_payment_id |-> pay,
     createdAt |-> created, updatedAt |-> created]

\* The orders handed to db.saveOrder: a fresh link without a store, the same
\* link after checkout filled in customer and payment data (another amount),
\* one below the minimum amount, one above the maximum, and a second order.
OrderInputs ==
    { MkOrder("o1", 2000, "Link Rapido", "pending", NoVal, NoVal, NoVal, NoVal, NoVal, 1),
      MkOrder("o1", 10000, "Pedido", "pending", "s1", "Loja 1", "Ana", "Rua 1", "pix1", 1),
      MkOrder("o1", 500, "Link Rapido", "pending", NoVal, NoVal, NoVal, NoVal, NoVal, 1),
      MkOrder("o2", 600001, "Link Rapido", "pending", "s1", "Loja 1", NoVal, NoVal, NoVal, 2),
      MkOrder("o2", 2000, "Link Rapido", "completed", "s1", "Loja 1", NoVal, NoVal, NoVal, 2) }

(***************************************************************************)
(* Helpers on collections.                                                 *)
(***************************************************************************)
\* Array.prototype.findIndex / Model.findOne by id: the first position that
\* holds the id, 0 when there is none.
FindIndex(coll, id) ==
    IF \E i \in 1..Len(coll) : coll[i].id = id
    THEN CHOOSE i \in 1..Len(coll) :
            /\ coll[i].id = id
            /\ \A j \in 1..(i - 1) : coll[j].id # id
    ELSE 0

\* Array.prototype.find: the first element with the id, or undefined.
Find(coll, id) ==
    IF FindIndex(coll, id) > 0 THEN <<coll[FindIndex(coll, id)]>> ELSE << >>

(***************************************************************************)
(* The remote service.                                                     *)
(***************************************************************************)
\* OrderSchema is strict: a key the schema does not declare is dropped when
\* the body is cast.  customer_address is such a key.
OrderSchemaCast(body) == [body EXCEPT !.customer_address = NoVal]

\* findOneAndUpdate with a plain object sets the keys the object holds and
\* keeps every other key of the stored document.
SetOrderFields(doc, update) ==
    [f \in DOMAIN doc |->
        IF f \in OptionalOrderFields /\ update[f] = NoVal THEN doc[f] ELSE update[f]]

\* POST /api/orders
PostOrders(coll, body, t) ==
    LET updateData == [OrderSchemaCast(body) EXCEPT !.updatedAt = t]
        i == FindIndex(coll, body.id)
        order == IF i > 0 THEN SetOrderFields(coll[i], updateData) ELSE updateData
    IN  [status |-> 200,
         body |-> <<order>>,
         coll |-> IF i > 0 THEN [coll EXCEPT ![i] = order] ELSE Append(coll, order)]

\* GET /api/orders/:id
GetOrder(coll, id) ==
    LET order == Find(coll, id)
    IN  IF order = << >>
        THEN [status |-> 404, body |-> << >>, coll |-> coll]
        ELSE [status |-> 200, body |-> order, coll |-> coll]

\* Mutant of PatchOrderStatus: the document is replaced by one that holds the
\* id, the amount, the description and the new status.
PatchOrderStatusReplacing(coll, id, status, t) ==
    LET i == FindIndex(coll, id)
        order == IF i > 0
                 THEN <<[[f \in DOMAIN coll[i] |->
                            IF f \in OptionalOrderFields THEN NoVal ELSE coll[i][f]]
                         EXCEPT !.status = status, !.updatedAt = t]>>
                 ELSE << >>
    IN  [status |-> 200,
         body |-> order,
         coll |-> IF i > 0 THEN [coll EXCEPT ![i] = order[1]] ELSE coll]

\* Mutant of PatchOrderStatus: only a pending order is given the new status.
PatchOrderStatusPendingOnly(coll, id, status, t) ==
    LET i == FindIndex(coll, id)
        order == IF i > 0
                 THEN IF coll[i].status = "pending"
                      THEN <<[coll[i] EXCEPT !.status = status, !.updatedAt = t]>>
                      ELSE <<coll[i]>>
                 ELSE << >>
    IN  [status |-> 200,
         body |-> order,
         coll |-> IF i > 0 THEN [coll EXCEPT ![i] = order[1]] ELSE coll]

\* PATCH /api/orders/:id/status
PatchOrderStatus(coll, id, status, t) ==
    LET i == FindIndex(coll, id)
        order == IF i > 0
                 THEN <<[coll[i] EXCEPT !.status = status, !.updatedAt = t]>>
                 ELSE << >>
    IN  [status |-> 200,
         body |-> order,
         coll |-> IF i > 0 THEN [coll EXCEPT ![i] = order[1]] ELSE coll]

\* Array.prototype.filter and a query's match are SelectSeq.
\* sort by createdAt, latest first; elements with equal createdAt keep their
\* order (Array.prototype.sort is stable).
RECURSIVE InsertByCreatedAt(_, _)
InsertByCreatedAt(sorted, x) ==
    IF sorted = << >> THEN <<x>>
    ELSE IF Head(sorted).createdAt >= x.createdAt
         THEN <<Head(sorted)>> \o InsertByCreatedAt(Tail(sorted), x)
         ELSE <<x>> \o sorted

RECURSIVE SortByCreatedAtDesc(_)
SortByCreatedAtDesc(coll) ==
    IF coll = << >> THEN << >>
    ELSE InsertByCreatedAt(SortByCreatedAtDesc(SubSeq(coll, 1, Len(coll) - 1)),
                           coll[Len(coll)])

\* reduce((acc, curr) => acc + curr.amount, 0) / { $sum: "$amount" }
RECURSIVE SumAmount(_)
SumAmount(coll) ==
    IF coll = << >> THEN 0 ELSE Head(coll).amount + SumAmount(Tail(coll))

\* Mutant of ToFixed1: the digits after the first decimal are cut off.
ToFixed1Truncated(part, whole) ==
    LET tenths == (1000 * part) \div whole
    IN  ToString(tenths \div 10) \o "." \o ToString(tenths % 10)

\* Number.prototype.toFixed(1) of (part / whole) * 100: the nearest tenth,
\* the larger one on a tie.
ToFixed1(part, whole) ==
    LET tenths == (2000 * part + whole) \div (2 * whole)
    IN  ToString(tenths \div 10) \o "." \o ToString(tenths % 10)

\* Mutant of Query: the store id is not put into the query.
QueryWithoutStore(coll, storeId) == coll

\* storeId ? { store_id: storeId } : {} followed by Model.find(query)
Query(coll, storeId) ==
    IF storeId # NoVal THEN SelectSeq(coll, LAMBDA o : o.store_id = storeId) ELSE coll

\* GET /api/orders
GetOrders(coll, storeId) ==
    [status |-> 200, body |-> SortByCreatedAtDesc(Query(coll, storeId)), coll |-> coll]

\* Mutant of GetMetrics: the revenue pipeline does not match on the status.
GetMetricsRevenueOfAll(coll, storeId) ==
    LET query == Query(coll, storeId)
        totalOrders == Len(query)
        pendingOrders == Len(SelectSeq(query, LAMBDA o : o.status = "pending"))
        totalRevenue == SumAmount(query)
        completedCount == Len(SelectSeq(query, LAMBDA o : o.status = "completed"))
        conversionRate == IF totalOrders > 0 THEN ToFixed1(completedCount, totalOrders)
                                             ELSE "0.0"
    IN  [status |-> 200,
         body |-> <<[totalOrders |-> totalOrders, totalRevenue |-> totalRevenue,
                     pendingOrders |-> pendingOrders, conversionRate |-> conversionRate]>>,
         coll |-> coll]

\* GET /api/dashboard/metrics
GetMetrics(coll, storeId) ==
    LET query == Query(coll, storeId)
        totalOrders == Len(query)
        pendingOrders == Len(SelectSeq(query, LAMBDA o : o.status = "pending"))
        totalRevenue == SumAmount(SelectSeq(query, LAMBDA o : o.status = "completed"))
        completedCount == Len(SelectSeq(query, LAMBDA o : o.status = "completed"))
        conversionRate == IF totalOrders > 0 THEN ToFixed1(completedCount, totalOrders)
                                             ELSE "0.0"
    IN  [status |-> 200,
         body |-> <<[totalOrders |-> totalOrders, totalRevenue |-> totalRevenue,
                     pendingOrders |-> pendingOrders, conversionRate |-> conversionRate]>>,
         coll |-> coll]

\* GET /api/stores
GetStores(coll) ==
    [status |-> 200, body |-> SortByCreatedAtDesc(coll), coll |-> coll]

\* GET /api/stores/:id
GetStore(coll, id) ==
    LET store == Find(coll, id)
    IN  IF store = << >>
        THEN [status |-> 404, body |-> << >>, coll |-> coll]
        ELSE [status |-> 200, body |-> store, coll |-> coll]

\* new Store(body): the schema's defaults fill in the fees that are absent.
StoreSchemaDefaults(body) ==
    [body EXCEPT !.pixFeePercentage = IF @ = << >> THEN <<0>> ELSE @,
                 !.pixFeeFixed = IF @ = << >> THEN <<0>> ELSE @]

\* POST /api/stores: save() fails on a store without a name (required) and
\* on an id that the collection already holds (unique).
PostStores(coll, body) ==
    LET newStore == StoreSchemaDefaults(body)
    IN  IF body.name = "" \/ FindIndex(coll, body.id) > 0
        THEN [status |-> 500, body |-> << >>, coll |-> coll]
        ELSE [status |-> 200, body |-> <<newStore>>, coll |-> Append(coll, newStore)]

\* findOneAndUpdate with a plain object, on a store.
SetStoreFields(doc, update) ==
    [f \in DOMAIN doc |->
        IF \/ f \in {"description", "apiKey"} /\ update[f] = NoVal
           \/ f \in {"pixFeePercentage", "pixFeeFixed"} /\ update[f] = << >>
        THEN doc[f] ELSE update[f]]

\* PUT /api/stores/:id
PutStore(coll, id, body) ==
    LET i == FindIndex(coll, id)
        updatedStore == IF i > 0 THEN <<SetStoreFields(coll[i], body)>> ELSE << >>
    IN  [status |-> 200,
         body |-> updatedStore,
         coll |-> IF i > 0 THEN [coll EXCEPT ![i] = updatedStore[1]] ELSE coll]

\* axios rejects when the request gets no answer or the answer is not 2xx.
AxiosThrows(up, response) == ~up \/ response.status \notin 200..299

(***************************************************************************)
(* The gateway: db.  An operation is given the two targets it may touch,   *)
(* whether the remote answers this call (up) and the time; it yields the   *)
(* targets afterwards, the target that answered, and what the promise      *)
(* resolved to.                                                            *)
(***************************************************************************)
Outcome(remote, local, via, threw, ret) ==
    [remote |-> remote, local |-> local, via |-> via, threw |-> threw, ret |-> ret]

\* The try branch: the response's data is returned.
Answered(response) == Outcome(response.coll, << >>, "remote", FALSE, response.body)

\* getLocalStores / getLocalOrders: the parsed array, [] when the key is unset.
getLocalStores(localStorage) == localStorage

getLocalOrders(localStorage) == localStorage

\* db.getStores
getStores(remote, local, up) ==
    LET response == GetStores(remote)
    IN  IF ~AxiosThrows(up, response)
        THEN [Answered(response) EXCEPT !.local = local]
        ELSE Outcome(remote, local, "local", FALSE, getLocalStores(local))

\* db.getStoreById
getStoreById(remote, local, id, up) ==
    LET response == GetStore(remote, id)
    IN  IF ~AxiosThrows(up, response)
        THEN [Answered(response) EXCEPT !.local = local]
        ELSE Outcome(remote, local, "local", FALSE, Find(getLocalStores(local), id))

\* db.createStore
createStore(remote, local, store, up) ==
    LET response == PostStores(remote, store)
    IN  IF ~AxiosThrows(up, response)
        THEN [Answered(response) EXCEPT !.local = local]
        ELSE Outcome(remote, Append(getLocalStores(local), store), "local", FALSE,
                     <<store>>)

\* Mutant of updateStore: the fallback adds the store when it is not held.
updateStoreOrAdd(remote, local, store, up) ==
    LET response == PutStore(remote, store.id, store)
        listed == getLocalStores(local)
        idx == FindIndex(listed, store.id)
    IN  IF ~AxiosThrows(up, response)
        THEN [Answered(response) EXCEPT !.local = local]
        ELSE IF idx > 0
             THEN Outcome(remote, [listed EXCEPT ![idx] = store], "local", FALSE,
                          <<store>>)
             ELSE Outcome(remote, Append(listed, store), "local", FALSE, <<store>>)

\* db.updateStore
updateStore(remote, local, store, up) ==
    LET response == PutStore(remote, store.id, store)
        listed == getLocalStores(local)
        idx == FindIndex(listed, store.id)
    IN  IF ~AxiosThrows(up, response)
        THEN [Answered(response) EXCEPT !.local = local]
        ELSE IF idx > 0
             THEN Outcome(remote, [listed EXCEPT ![idx] = store], "local", FALSE,
                          <<store>>)
             ELSE Outcome(remote, local, "local", FALSE, << >>)

\* Mutant of getAllOrders: the fallback does not sort.
getAllOrdersUnsorted(remote, local, storeId, up) ==
    LET response == GetOrders(remote, storeId)
        sorted == getLocalOrders(local)
        filtered == IF storeId # NoVal
                    THEN SelectSeq(sorted, LAMBDA o : o.store_id = storeId)
                    ELSE sorted
    IN  IF ~AxiosThrows(up, response)
        THEN [Answered(response) EXCEPT !.local = local]
        ELSE Outcome(remote, local, "local", FALSE, filtered)

\* Mutant of getAllOrders: the fallback writes the list it returns back to
\* the cache.
getAllOrdersStoringList(remote, local, storeId, up) ==
    LET response == GetOrders(remote, storeId)
        sorted == SortByCreatedAtDesc(getLocalOrders(local))
        filtered == IF storeId # NoVal
                    THEN SelectSeq(sorted, LAMBDA o : o.store_id = storeId)
                    ELSE sorted
    IN  IF ~AxiosThrows(up, response)
        THEN [Answered(response) EXCEPT !.local = local]
        ELSE Outcome(remote, filtered, "local", FALSE, filtered)

\* db.getAllOrders
getAllOrders(remote, local, storeId, up) ==
    LET response == GetOrders(remote, storeId)
        sorted == SortByCreatedAtDesc(getLocalOrders(local))
        filtered == IF storeId # NoVal
                    THEN SelectSeq(sorted, LAMBDA o : o.store_id = storeId)
                    ELSE sorted
    IN  IF ~AxiosThrows(up, response)
        THEN [Answered(response) EXCEPT !.local = local]
        ELSE Outcome(remote, local, "local", FALSE, filtered)

\* Mutant of getOrderById: the catch branch runs only when the remote gave no
\* answer; a 404 resolves to undefined.
getOrderByIdAnswered404(remote, local, id, up) ==
    LET response == GetOrder(remote, id)
    IN  IF up
        THEN [Answered(response) EXCEPT !.local = local]
        ELSE Outcome(remote, local, "local", FALSE, Find(getLocalOrders(local), id))

\* db.getOrderById
getOrderById(remote, local, id, up) ==
    LET response == GetOrder(remote, id)
    IN  IF ~AxiosThrows(up, response)
        THEN [Answered(response) EXCEPT !.local = local]
        ELSE Outcome(remote, local, "local", FALSE, Find(getLocalOrders(local), id))

\* Mutant of saveOrderLocal: the array written back holds the order alone.
saveOrderLocalAlone(stored, order, t) ==
    LET toSave == [order EXCEPT !.updatedAt = t]
    IN  [ret |-> <<toSave>>, stored |-> <<toSave>>]

\* Mutant of saveOrderLocal: the order is pushed without looking for its id.
saveOrderLocalPush(stored, order, t) ==
    LET toSave == [order EXCEPT !.updatedAt = t]
    IN  [ret |-> <<toSave>>, stored |-> Append(stored, toSave)]

\* The catch branch of db.saveOrder.
saveOrderLocal(stored, order, t) ==
    LET idx == FindIndex(stored, order.id)
        toSave == [order EXCEPT !.updatedAt = t]
    IN  [ret |-> <<toSave>>,
         stored |-> IF idx > 0 THEN [stored EXCEPT ![idx] = toSave]
                               ELSE Append(stored, toSave)]

\* db.saveOrder
saveOrder(remote, local, order, up, t) ==
    LET response == PostOrders(remote, order, t)
        fallback == saveOrderLocal(getLocalOrders(local), order, t)
    IN  IF ~AxiosThrows(up, response)
        THEN [Answered(response) EXCEPT !.local = local]
        ELSE Outcome(remote, fallback.stored, "local", FALSE, fallback.ret)

\* Mutant of updateStatusLocal: the status is written to every order when the
\* id is found.
updateStatusLocalEvery(stored, id, status, t) ==
    IF FindIndex(stored, id) > 0
    THEN [i \in 1..Len(stored) |-> [stored[i] EXCEPT !.status = status, !.updatedAt = t]]
    ELSE stored

\* The catch branch of db.updateStatus.
updateStatusLocal(stored, id, status, t) ==
    LET i == FindIndex(stored, id)
    IN  IF i > 0
        THEN [stored EXCEPT ![i] = [@ EXCEPT !.status = status, !.updatedAt = t]]
        ELSE stored

\* db.updateStatus: resolves to nothing (void) on both branches.
updateStatus(remote, local, id, status, up, t) ==
    LET response == PatchOrderStatus(remote, id, status, t)
    IN  IF ~AxiosThrows(up, response)
        THEN [Answered(response) EXCEPT !.local = local, !.ret = << >>]
        ELSE Outcome(remote, updateStatusLocal(getLocalOrders(local), id, status, t),
                     "local", FALSE, << >>)

\* Mutant of getMetricsLocal: the scope is not applied.
getMetricsLocalUnscoped(local, storeId) ==
    LET filtered == getLocalOrders(local)
        totalOrders == Len(filtered)
        completedOrders == SelectSeq(filtered, LAMBDA o : o.status = "completed")
        totalRevenue == SumAmount(completedOrders)
        pendingOrders == Len(SelectSeq(filtered, LAMBDA o : o.status = "pending"))
        conversionRate == IF totalOrders > 0
                          THEN ToFixed1(Len(completedOrders), totalOrders)
                          ELSE "0.0"
    IN  [totalOrders |-> totalOrders, totalRevenue |-> totalRevenue,
         pendingOrders |-> pendingOrders, conversionRate |-> conversionRate]

\* Mutant of getMetricsLocal: pending orders are counted before the scope is
\* applied.
getMetricsLocalPendingOfAll(local, storeId) ==
    LET all == getLocalOrders(local)
        filtered == IF storeId # NoVal
                    THEN SelectSeq(all, LAMBDA o : o.store_id = storeId)
                    ELSE all
        totalOrders == Len(filtered)
        completedOrders == SelectSeq(filtered, LAMBDA o : o.status = "completed")
        totalRevenue == SumAmount(completedOrders)
        pendingOrders == Len(SelectSeq(all, LAMBDA o : o.status = "pending"))
        conversionRate == IF totalOrders > 0
                          THEN ToFixed1(Len(completedOrders), totalOrders)
                          ELSE "0.0"
    IN  [totalOrders |-> totalOrders, totalRevenue |-> totalRevenue,
         pendingOrders |-> pendingOrders, conversionRate |-> conversionRate]

\* The catch branch of db.getMetrics.
getMetricsLocal(local, storeId) ==
    LET all == getLocalOrders(local)
        filtered == IF storeId # NoVal
                    THEN SelectSeq(all, LAMBDA o : o.store_id = storeId)
                    ELSE all
        totalOrders == Len(filtered)
        completedOrders == SelectSeq(filtered, LAMBDA o : o.status = "completed")
        totalRevenue == SumAmount(completedOrders)
        pendingOrders == Len(SelectSeq(filtered, LAMBDA o : o.status = "pending"))
        conversionRate == IF totalOrders > 0
                          THEN ToFixed1(Len(completedOrders), totalOrders)
                          ELSE "0.0"
    IN  [totalOrders |-> totalOrders, totalRevenue |-> totalRevenue,
         pendingOrders |-> pendingOrders, conversionRate |-> conversionRate]

\* Mutant of getMetrics: no catch, a failed request rejects the promise.
getMetricsNoCatch(remote, local, storeId, up) ==
    LET response == GetMetrics(remote, storeId)
    IN  IF ~AxiosThrows(up, response)
        THEN [Answered(response) EXCEPT !.local = local]
        ELSE Outcome(remote, local, "none", TRUE, << >>)

\* db.getMetrics
getMetrics(remote, local, storeId, up) ==
    LET response == GetMetrics(remote, storeId)
    IN  IF ~AxiosThrows(up, response)
        THEN [Answered(response) EXCEPT !.local = local]
        ELSE Outcome(remote, local, "local", FALSE, <<getMetricsLocal(local, storeId)>>)

(***************************************************************************)
(* Calls of the gateway, as the steps of the system.                       *)
(***************************************************************************)
\* What is recorded of a completed call: the operation and its arguments (the
\* id, the order or store passed, the status or scope passed), the target
\* that answered, whether the promise rejected, and the value it resolved to.
\* A handler run is recorded likewise, with the alert it showed.
Call(op, id, arg, status, out) ==
    [op |-> op, id |-> id, arg |-> arg, status |-> status,
     via |-> out.via, threw |-> out.threw, ret |-> out.ret, alert |-> NoVal]

NoCall ==
    [op |-> "none", id |-> NoVal, arg |-> << >>, status |-> NoVal,
     via |-> "none", threw |-> FALSE, ret |-> << >>, alert |-> NoVal]

Completed(call) ==
    /\ prev' = last
    /\ last' = call
    /\ now' = now + 1
    /\ UNCHANGED <<calls, timers>>

OnOrders(out) ==
    /\ remoteOrders' = out.remote
    /\ localOrders' = out.local
    /\ UNCHANGED <<remoteStores, localStores>>
    /\ UNCHANGED uiVars

OnStores(out) ==
    /\ remoteStores' = out.remote
    /\ localStores' = out.local
    /\ UNCHANGED <<remoteOrders, localOrders>>
    /\ UNCHANGED uiVars

CallSaveOrder(order, up) ==
    LET out == saveOrder(remoteOrders, localOrders, order, up, now)
    IN  OnOrders(out) /\ Completed(Call("saveOrder", order.id, <<order>>, NoVal, out))

CallGetOrderById(id, up) ==
    LET out == getOrderById(remoteOrders, localOrders, id, up)
    IN  OnOrders(out) /\ Completed(Call("getOrderById", id, << >>, NoVal, out))

CallUpdateStatus(id, status, up) ==
    LET out == updateStatus(remoteOrders, localOrders, id, status, up, now)
    IN  OnOrders(out) /\ Completed(Call("updateStatus", id, << >>, status, out))

CallGetAllOrders(storeId, up) ==
    LET out == getAllOrders(remoteOrders, localOrders, storeId, up)
    IN  OnOrders(out) /\ Completed(Call("getAllOrders", NoVal, << >>, storeId, out))

CallGetMetrics(storeId, up) ==
    LET out == getMetrics(remoteOrders, localOrders, storeId, up)
    IN  OnOrders(out) /\ Completed(Call("getMetrics", NoVal, << >>, storeId, out))

CallGetStores(up) ==
    LET out == getStores(remoteStores, localStores, up)
    IN  OnStores(out) /\ Completed(Call("getStores", NoVal, << >>, NoVal, out))

CallGetStoreById(id, up) ==
    LET out == getStoreById(remoteStores, localStores, id, up)
    IN  OnStores(out) /\ Completed(Call("getStoreById", id, << >>, NoVal, out))

CallCreateStore(store, up) ==
    LET out == createStore(remoteStores, localStores, store, up)
    IN  OnStores(out) /\ Completed(Call("createStore", store.id, <<store>>, NoVal, out))

CallUpdateStore(store, up) ==
    LET out == updateStore(remoteStores, localStores, store, up)
    IN  OnStores(out) /\ Completed(Call("updateStore", store.id, <<store>>, NoVal, out))

(***************************************************************************)
(* AdminDashboard: the link form.                                          *)
(*                                                                         *)
(* The amount field is an <input type="number">: its text is empty or a    *)
(* decimal numeral, here with whole cents.  fee and net are counted in     *)
(* hundredths of a cent, so that 2 % of a whole number of cents is whole.  *)
(***************************************************************************)
EmptyText == [kind |-> "empty", cents |-> 0]

Numeral(cents) == [kind |-> "number", cents |-> cents]

\* parseFloat: the number a numeral denotes, NaN (<< >>) for the empty text.
ParseFloat(text) == IF text.kind = "number" THEN <<text.cents>> ELSE << >>

\* Mutant of Validate: the minimum itself is refused.
ValidateAboveMinimum(val) ==
    IF val <= MinAmount
    THEN [isValid |-> FALSE, message |-> "Valor minimo por transacao e R$ 10,00"]
    ELSE IF val > MaxAmount
         THEN [isValid |-> FALSE, message |-> "Valor maximo por transacao e R$ 6.000,00"]
         ELSE [isValid |-> TRUE, message |-> ""]

\* The validity rules of the simulation effect.
Validate(val) ==
    IF val < MinAmount
    THEN [isValid |-> FALSE, message |-> "Valor minimo por transacao e R$ 10,00"]
    ELSE IF val > MaxAmount
         THEN [isValid |-> FALSE, message |-> "Valor maximo por transacao e R$ 6.000,00"]
         ELSE [isValid |-> TRUE, message |-> ""]

\* Mutant of Fee: an amount of exactly R$ 50,00 still pays the fixed R$ 1,00.
FeeFixedUpToThreshold(val) == IF val <= FlatFeeBelow THEN (val * 2) + 10000 ELSE val * 2

\* The fee rules of the simulation effect.
Fee(val) == IF val < FlatFeeBelow THEN (val * 2) + 10000 ELSE val * 2

\* The value the simulation effect gives feeSimulation.
Simulate(text) ==
    IF text.kind = "empty" \/ ParseFloat(text) = << >>
    THEN << >>
    ELSE LET val == ParseFloat(text)[1]
         IN  <<[fee |-> Fee(val), net |-> (val * 100) - Fee(val),
                isValid |-> Validate(val).isValid, message |-> Validate(val).message]>>

\* onChange of the amount field: setAmount; the effect on [amount] is
\* scheduled when the text changed.
SetAmount(text) ==
    /\ text # amount
    /\ amount' = text
    /\ simulationPending' = TRUE
    /\ UNCHANGED <<description, feeSimulation, selectedStore, metrics, orders,
                   stores, newStoreName>>
    /\ UNCHANGED <<dbVars, now, last, prev, calls, timers>>

\* onChange of the description field.
SetDescription(text) ==
    /\ text # description
    /\ description' = text
    /\ UNCHANGED <<amount, feeSimulation, simulationPending, selectedStore, metrics,
                   orders, stores, newStoreName>>
    /\ UNCHANGED <<dbVars, now, last, prev, calls, timers>>

\* The simulation effect.
SimulationEffect ==
    /\ simulationPending
    /\ feeSimulation' = Simulate(amount)
    /\ simulationPending' = FALSE
    /\ UNCHANGED <<amount, description, selectedStore, metrics, orders, stores,
                   newStoreName>>
    /\ UNCHANGED <<dbVars, now, last, prev, calls, timers>>

\* The submit button is disabled unless the simulation shown is valid.
SubmitEnabled == feeSimulation # << >> /\ feeSimulation[1].isValid

\* Mutants of AmountRejected: only NaN is refused; the maximum is not checked.
AmountRejectedNaNOnly(val) == val = << >>

AmountRejectedNoMaximum(val) == val = << >> \/ val[1] < MinAmount

\* The check at the head of handleGenerateLink.
AmountRejected(val) == val = << >> \/ val[1] < MinAmount \/ val[1] > MaxAmount

\* Math.random().toString(36): an id that no stored order carries.
FreshOrderIds ==
    {id \in OrderIds : FindIndex(remoteOrders, id) = 0 /\ FindIndex(localOrders, id) = 0}

\* refreshData's scope.
ScopeOf(store) == IF store = << >> THEN NoVal ELSE store[1].id

\* Mutants of NewOrder: the store's name is not copied; the store's name is
\* copied where its id belongs.
NewOrderWithoutStoreName(id, val) ==
    [id |-> id, amount |-> val,
     description |-> IF description # "" THEN description ELSE "Link Rapido",
     status |-> "pending",
     store_id |-> IF selectedStore = << >> THEN NoVal ELSE selectedStore[1].id,
     store_name |-> NoVal,
     customer_name |-> NoVal, customer_address |-> NoVal,
     pixgo_payment_id |-> NoVal, createdAt |-> now, updatedAt |-> now]

NewOrderStoreNameAsId(id, val) ==
    [id |-> id, amount |-> val,
     description |-> IF description # "" THEN description ELSE "Link Rapido",
     status |-> "pending",
     store_id |-> IF selectedStore = << >> THEN NoVal ELSE selectedStore[1].name,
     store_name |-> IF selectedStore = << >> THEN NoVal ELSE selectedStore[1].name,
     customer_name |-> NoVal, customer_address |-> NoVal,
     pixgo_payment_id |-> NoVal, createdAt |-> now, updatedAt |-> now]

\* The order handleGenerateLink builds.
NewOrder(id, val) ==
    [id |-> id, amount |-> val,
     description |-> IF description # "" THEN description ELSE "Link Rapido",
     status |-> "pending",
     store_id |-> IF selectedStore = << >> THEN NoVal ELSE selectedStore[1].id,
     store_name |-> IF selectedStore = << >> THEN NoVal ELSE selectedStore[1].name,
     customer_name |-> NoVal, customer_address |-> NoVal,
     pixgo_payment_id |-> NoVal, createdAt |-> now, updatedAt |-> now]

\* handleGenerateLink, with refreshData.  The three gateway calls it makes
\* each find the remote up or down.
handleGenerateLink(id, saveUp, metricsUp, ordersUp) ==
    LET val == ParseFloat(amount)
        newOrder == NewOrder(id, val[1])
        saved == saveOrder(remoteOrders, localOrders, newOrder, saveUp, now)
        newMetrics == getMetrics(saved.remote, saved.local, ScopeOf(selectedStore), metricsUp)
        newOrders == getAllOrders(saved.remote, saved.local, ScopeOf(selectedStore), ordersUp)
    IN  IF AmountRejected(val)
        THEN /\ UNCHANGED <<dbVars, uiVars>>
             /\ Completed([NoCall EXCEPT
                    !.op = "handleGenerateLink",
                    !.alert = "O valor deve estar entre R$ 10,00 e R$ 6.000,00"])
        ELSE /\ remoteOrders' = saved.remote
             /\ localOrders' = saved.local
             /\ UNCHANGED <<remoteStores, localStores>>
             /\ metrics' = newMetrics.ret[1]
             /\ orders' = newOrders.ret
             /\ amount' = EmptyText
             /\ simulationPending' = (amount # EmptyText)
             /\ description' = ""
             /\ UNCHANGED <<feeSimulation, selectedStore, stores, newStoreName>>
             /\ Completed(Call("handleGenerateLink", id, <<newOrder>>, NoVal, saved))

(***************************************************************************)
(* AdminDashboard: the stores view.                                        *)
(***************************************************************************)
\* String.prototype.trim, on the blanks at either end of the text.
RECURSIVE TrimStart(_)
TrimStart(text) ==
    IF Len(text) > 0 /\ SubSeq(text, 1, 1) = " "
    THEN TrimStart(SubSeq(text, 2, Len(text)))
    ELSE text

RECURSIVE TrimEnd(_)
TrimEnd(text) ==
    IF Len(text) > 0 /\ SubSeq(text, Len(text), Len(text)) = " "
    THEN TrimEnd(SubSeq(text, 1, Len(text) - 1))
    ELSE text

\* Mutant of Trim: the text is tested as typed.
TrimNothing(text) == text

Trim(text) == TrimEnd(TrimStart(text))

\* onChange of the store-name field.
SetNewStoreName(text) ==
    /\ text # newStoreName
    /\ newStoreName' = text
    /\ UNCHANGED <<amount, description, feeSimulation, simulationPending, selectedStore,
                   metrics, orders, stores>>
    /\ UNCHANGED <<dbVars, now, last, prev, calls, timers>>

\* Math.random().toString(36): an id that no stored store carries.
FreshStoreIds ==
    {id \in StoreIds : FindIndex(remoteStores, id) = 0 /\ FindIndex(localStores, id) = 0}

\* handleCreateStore, with loadStores.  The two gateway calls it makes each
\* find the remote up or down.
handleCreateStore(id, createUp, loadUp) ==
    LET newStore == MkStore(id, newStoreName, NoVal, << >>, << >>, now)
        created == createStore(remoteStores, localStores, newStore, createUp)
        list == getStores(created.remote, created.local, loadUp)
    IN  IF Trim(newStoreName) = ""
        THEN /\ UNCHANGED <<dbVars, uiVars>>
             /\ Completed([NoCall EXCEPT !.op = "handleCreateStore"])
        ELSE /\ remoteStores' = created.remote
             /\ localStores' = created.local
             /\ UNCHANGED <<remoteOrders, localOrders>>
             /\ stores' = list.ret
             /\ newStoreName' = ""
             /\ UNCHANGED <<amount, description, feeSimulation, simulationPending,
                            selectedStore, metrics, orders>>
             /\ Completed([Call("handleCreateStore", id, <<newStore>>, NoVal, created)
                              EXCEPT !.alert = "Loja criada com sucesso!"])

\* handleEnterStore
handleEnterStore(store) ==
    /\ selectedStore' = <<store>>
    /\ UNCHANGED <<amount, description, feeSimulation, simulationPending, metrics,
                   orders, stores, newStoreName>>
    /\ UNCHANGED <<dbVars, now, last, prev, calls, timers>>

\* handleExitStore
handleExitStore ==
    /\ selectedStore' = << >>
    /\ UNCHANGED <<amount, description, feeSimulation, simulationPending, metrics,
                   orders, stores, newStoreName>>
    /\ UNCHANGED <<dbVars, now, last, prev, calls, timers>>

(***************************************************************************)
(* AdminDashboard: the settings of the store entered, the refresh of the   *)
(* data shown and the figures of the financial card.                       *)
(*                                                                         *)
(* A fee percentage is counted in hundredths of a percent and a fixed fee  *)
(* in cents, so estimatedFees and estimatedNet are in ten-thousandths of a *)
(* cent.  The content of the settings form when it is submitted is an      *)
(* input of handleSaveStoreSettings.                                       *)
(***************************************************************************)
\* Mutant of UpdatedStore: the store entered is not spread into the record.
UpdatedStoreWithoutSpread(form) ==
    MkStore(selectedStore[1].id, NoVal, form.apiKey, <<form.feePercent>>,
            <<form.feeFixed>>, now)

\* The record handleSaveStoreSettings builds.
UpdatedStore(form) ==
    [selectedStore[1] EXCEPT !.apiKey = form.apiKey,
                             !.pixFeePercentage = <<form.feePercent>>,
                             !.pixFeeFixed = <<form.feeFixed>>]

\* handleSaveStoreSettings
handleSaveStoreSettings(form, up) ==
    LET updated == UpdatedStore(form)
        out == updateStore(remoteStores, localStores, updated, up)
    IN  IF selectedStore = << >>
        THEN /\ UNCHANGED <<dbVars, uiVars>>
             /\ Completed([NoCall EXCEPT !.op = "handleSaveStoreSettings"])
        ELSE /\ remoteStores' = out.remote
             /\ localStores' = out.local
             /\ UNCHANGED <<remoteOrders, localOrders>>
             /\ selectedStore' = <<updated>>
             /\ UNCHANGED <<amount, description, feeSimulation, simulationPending,
                            metrics, orders, stores, newStoreName>>
             /\ Completed([Call("handleSaveStoreSettings", updated.id, <<updated>>,
                                 NoVal, out)
                              EXCEPT !.alert = "Configuracoes da loja salvas com sucesso!"])

\* refreshData: the summary and the listing of the scope entered, each from
\* the remote or from the fallback.
refreshData(metricsUp, ordersUp) ==
    LET newMetrics == getMetrics(remoteOrders, localOrders, ScopeOf(selectedStore),
                                 metricsUp)
        newOrders == getAllOrders(remoteOrders, localOrders, ScopeOf(selectedStore),
                                  ordersUp)
    IN  /\ metrics' = newMetrics.ret[1]
        /\ orders' = newOrders.ret
        /\ UNCHANGED <<amount, description, feeSimulation, simulationPending,
                       selectedStore, stores, newStoreName>>
        /\ UNCHANGED <<dbVars, now, last, prev, calls, timers>>

\* selectedStore.pixFeePercentage || 0, selectedStore.pixFeeFixed || 0
OrZero(fee) == IF fee = << >> THEN 0 ELSE fee[1]

\* Calculations for the financial card.
estimatedFees ==
    IF metrics.totalRevenue > 0 /\ selectedStore # << >>
    THEN (metrics.totalRevenue * OrZero(selectedStore[1].pixFeePercentage))
            + (metrics.totalOrders * OrZero(selectedStore[1].pixFeeFixed) * 10000)
    ELSE 0

estimatedNet == (metrics.totalRevenue * 10000) - estimatedFees

(***************************************************************************)
(* A gateway call step by step.  Each operation of db is                   *)
(*     try { response = await axios...; return response.data }             *)
(*     catch { ...the local branch...; return ... }                        *)
(* The request is issued; the remote may handle it (apply it and answer,   *)
(* or answer with an error status); the answer may reach the caller, which *)
(* then returns it; or the await rejects, because the request or the       *)
(* answer was lost or timed out or the answer is an error, and the catch   *)
(* branch runs, without suspending, on the local cache.  Callers are the   *)
(* handlers and timers of one page; their steps interleave at the awaits.  *)
(***************************************************************************)
Callers == {"a", "b"}

Idle ==
    [pc |-> "idle", op |-> "none", id |-> NoVal, arg |-> << >>, status |-> NoVal,
     issued |-> 0, during |-> 0, log |-> << >>, refused |-> FALSE, applied |-> FALSE,
     response |-> << >>, via |-> "none", ret |-> << >>]

InFlight(c) == calls[c].pc \notin {"idle", "done"}

StoreOps == {"createStore", "updateStore"}

\* The operation of db that a call runs, the remote answering it or not.
Run(call, up) ==
    CASE call.op = "saveOrder" ->
            saveOrder(remoteOrders, localOrders, call.arg[1], up, now)
      [] call.op = "updateStatus" ->
            updateStatus(remoteOrders, localOrders, call.id, call.status, up, now)
      [] call.op = "getAllOrders" ->
            getAllOrders(remoteOrders, localOrders, call.status, up)
      [] call.op = "getMetrics" ->
            getMetrics(remoteOrders, localOrders, call.status, up)
      [] call.op = "createStore" ->
            createStore(remoteStores, localStores, call.arg[1], up)
      [] call.op = "updateStore" ->
            updateStore(remoteStores, localStores, call.arg[1], up)

\* The targets become what an operation left.
Apply(op, out) ==
    IF op \in StoreOps
    THEN /\ remoteStores' = out.remote
         /\ localStores' = out.local
         /\ UNCHANGED <<remoteOrders, localOrders>>
    ELSE /\ remoteOrders' = out.remote
         /\ localOrders' = out.local
         /\ UNCHANGED <<remoteStores, localStores>>

\* The collection of the remote that an operation works on.
RemoteOf(op) == IF op \in StoreOps THEN remoteStores ELSE remoteOrders

\* axios.get / post / put / patch is called: the request leaves.  A caller
\* issues its next call when the one before has returned.
Issue(c, op, id, arg, status) ==
    /\ calls[c].pc \in {"idle", "done"}
    /\ calls' = [calls EXCEPT ![c] =
            [Idle EXCEPT !.pc = "awaiting", !.op = op, !.id = id, !.arg = arg,
                         !.status = status, !.issued = now, !.log = <<"remote">>,
                         !.during = IF \E d \in Callers \ {c} : InFlight(d)
                                    THEN calls[CHOOSE d \in Callers \ {c} : InFlight(d)].issued
                                    ELSE 0]]
    /\ now' = now + 1
    /\ UNCHANGED <<dbVars, uiVars, last, prev>>

\* Mutant of ServeOutcome: what the remote stored is mirrored into the cache.
ServeOutcomeMirrored(call) == [Run(call, TRUE) EXCEPT !.local = Run(call, TRUE).remote]

\* What the route handler of the remote does with the request.
ServeOutcome(call) == Run(call, TRUE)

\* The remote handles the request of a call: it applies it and answers, or
\* answers with an error status.
Serve(c) ==
    /\ calls[c].pc = "awaiting"
    /\ LET out == ServeOutcome(calls[c])
       IN  IF out.via = "remote"
           THEN /\ Apply(calls[c].op, out)
                /\ calls' = [calls EXCEPT ![c].pc = "served", ![c].response = out.ret,
                                          ![c].applied = (out.remote # RemoteOf(calls[c].op))]
           ELSE /\ UNCHANGED dbVars
                /\ calls' = [calls EXCEPT ![c].pc = "served", ![c].refused = TRUE]
    /\ UNCHANGED <<uiVars, now, last, prev>>

\* The answer reaches the caller: the try branch returns response.data.
Receive(c) ==
    /\ calls[c].pc = "served" /\ ~calls[c].refused
    /\ calls' = [calls EXCEPT ![c].pc = "done", ![c].via = "remote",
                              ![c].ret = calls[c].response,
                              ![c].log = Append(@, "answered")]
    /\ UNCHANGED <<dbVars, uiVars, now, last, prev>>

\* GET /api/dashboard/metrics query by query: the handler awaits four
\* queries in turn, and the collection may change between two of them.  The
\* results so far are kept in the order they were obtained.
Counting == {"totalCounted", "pendingCounted", "revenueSummed"}

MetricsQuery(c) == Query(remoteOrders, calls[c].status)

\* totalOrders = await Order.countDocuments(query)
CountTotal(c) ==
    /\ calls[c].op = "getMetrics" /\ calls[c].pc = "awaiting"
    /\ calls' = [calls EXCEPT ![c].pc = "totalCounted",
                              ![c].response = <<Len(MetricsQuery(c))>>]
    /\ UNCHANGED <<dbVars, uiVars, now, last, prev>>

\* pendingOrders = await Order.countDocuments({ ...query, status: 'pending' })
CountPending(c) ==
    /\ calls[c].op = "getMetrics" /\ calls[c].pc = "totalCounted"
    /\ calls' = [calls EXCEPT ![c].pc = "pendingCounted",
                              ![c].response = Append(@,
                                    Len(SelectSeq(MetricsQuery(c),
                                                  LAMBDA o : o.status = "pending")))]
    /\ UNCHANGED <<dbVars, uiVars, now, last, prev>>

\* revenueAgg = await Order.aggregate([...]); totalRevenue
SumRevenue(c) ==
    /\ calls[c].op = "getMetrics" /\ calls[c].pc = "pendingCounted"
    /\ calls' = [calls EXCEPT ![c].pc = "revenueSummed",
                              ![c].response = Append(@,
                                    SumAmount(SelectSeq(MetricsQuery(c),
                                                        LAMBDA o : o.status = "completed")))]
    /\ UNCHANGED <<dbVars, uiVars, now, last, prev>>

\* Mutant of CountCompleted: the last query does not match on the status.
CountCompletedAnyStatus(c) ==
    /\ calls[c].op = "getMetrics" /\ calls[c].pc = "revenueSummed"
    /\ LET totalOrders == calls[c].response[1]
           pendingOrders == calls[c].response[2]
           totalRevenue == calls[c].response[3]
           completedCount == Len(MetricsQuery(c))
           conversionRate == IF totalOrders > 0 THEN ToFixed1(completedCount, totalOrders)
                                                ELSE "0.0"
       IN  calls' = [calls EXCEPT ![c].pc = "served",
                        ![c].response =
                            <<[totalOrders |-> totalOrders, totalRevenue |-> totalRevenue,
                               pendingOrders |-> pendingOrders,
                               conversionRate |-> conversionRate]>>]
    /\ UNCHANGED <<dbVars, uiVars, now, last, prev>>

\* completedCount = await Order.countDocuments(...); conversionRate; res.json
CountCompleted(c) ==
    /\ calls[c].op = "getMetrics" /\ calls[c].pc = "revenueSummed"
    /\ LET totalOrders == calls[c].response[1]
           pendingOrders == calls[c].response[2]
           totalRevenue == calls[c].response[3]
           completedCount == Len(SelectSeq(MetricsQuery(c),
                                           LAMBDA o : o.status = "completed"))
           conversionRate == IF totalOrders > 0 THEN ToFixed1(completedCount, totalOrders)
                                                ELSE "0.0"
       IN  calls' = [calls EXCEPT ![c].pc = "served",
                        ![c].response =
                            <<[totalOrders |-> totalOrders, totalRevenue |-> totalRevenue,
                               pendingOrders |-> pendingOrders,
                               conversionRate |-> conversionRate]>>]
    /\ UNCHANGED <<dbVars, uiVars, now, last, prev>>

\* Mutant of AfterThrow: a call that failed is sent to the remote once more.
AfterThrowRetry(call) ==
    IF Len(call.log) < 3
    THEN [call EXCEPT !.pc = "awaiting", !.log = Append(Append(@, "failed"), "remote")]
    ELSE [call EXCEPT !.pc = "caught", !.log = Append(@, "failed")]

\* The call after its await rejected: control is in the catch branch.
AfterThrow(call) == [call EXCEPT !.pc = "caught", !.log = Append(@, "failed")]

\* The await rejects: the request got no answer (it was lost or timed out
\* before or after the remote handled it), or the answer is an error.
Throw(c) ==
    /\ calls[c].pc \in {"awaiting", "served"} \cup Counting
    /\ calls' = [calls EXCEPT ![c] = AfterThrow(@)]
    /\ UNCHANGED <<dbVars, uiVars, now, last, prev>>

\* The catch branch runs to its return.
Catch(c) ==
    /\ calls[c].pc = "caught"
    /\ LET out == Run(calls[c], FALSE)
       IN  /\ Apply(calls[c].op, out)
           /\ calls' = [calls EXCEPT ![c].pc = "done", ![c].via = "local",
                                     ![c].ret = out.ret, ![c].log = Append(@, "local")]
    /\ UNCHANGED <<uiVars, now, last, prev>>

(***************************************************************************)
(* AdminDashboard: the data refresh cycle.  The effect on [selectedStore]  *)
(* calls refreshData and starts an interval on it; its cleanup clears that *)
(* interval.  refreshData and the handlers are closures of the render they *)
(* were created in: they see the selectedStore of that render, also after  *)
(* an await.  A refresh or a handler in flight occupies a caller; status   *)
(* holds the scope its closure sees.                                       *)
(***************************************************************************)
\* The interval that the effect started when the component mounted.
MountTimers == <<[scope |-> NoVal, created |-> 0]>>

FreeSlots == {c \in Callers : calls[c].pc \in {"idle", "done"}}

FreeSlot == CHOOSE c \in FreeSlots : TRUE

\* The callers when one of them starts an asynchronous function.
Started(c, op, arg, scope) ==
    [calls EXCEPT ![c] = [Idle EXCEPT !.pc = "awaiting", !.op = op, !.arg = arg,
                                      !.status = scope, !.issued = now]]

\* return () => clearInterval(interval): the interval that the run of the
\* effect before started (the latest) is cleared.
Cleanup(active) == SubSeq(active, 1, Len(active) - 1)

\* The Data Refresh Cycle effect after selectedStore changed: the cleanup of
\* the run before, then refreshData() and setInterval(refreshData, 10000).
DataRefreshCycle(scope) ==
    /\ FreeSlots # {}
    /\ timers' = Append(Cleanup(timers), [scope |-> scope, created |-> now])
    /\ calls' = Started(FreeSlot, "refreshData", << >>, scope)
    /\ now' = now + 1

\* handleEnterStore and the effect it triggers.
EnterStoreAndRefresh(store) ==
    /\ selectedStore = << >>
    /\ selectedStore' = <<store>>
    /\ DataRefreshCycle(ScopeOf(<<store>>))
    /\ UNCHANGED <<amount, description, feeSimulation, simulationPending, metrics,
                   orders, stores, newStoreName>>
    /\ UNCHANGED <<dbVars, last, prev>>

\* handleExitStore and the effect it triggers.
ExitStoreAndRefresh ==
    /\ selectedStore # << >>
    /\ selectedStore' = << >>
    /\ DataRefreshCycle(ScopeOf(<< >>))
    /\ UNCHANGED <<amount, description, feeSimulation, simulationPending, metrics,
                   orders, stores, newStoreName>>
    /\ UNCHANGED <<dbVars, last, prev>>

\* An interval fires: the refreshData it was given is called.
TimerTick(i) ==
    /\ FreeSlots # {}
    /\ calls' = Started(FreeSlot, "refreshData", << >>, timers[i].scope)
    /\ now' = now + 1
    /\ UNCHANGED <<dbVars, uiVars, last, prev>>

\* refreshData: Promise.all of db.getMetrics and db.getAllOrders resolves.
RefreshAnswered(c, metricsUp, ordersUp) ==
    /\ calls[c].op = "refreshData" /\ calls[c].pc = "awaiting"
    /\ LET newMetrics == getMetrics(remoteOrders, localOrders, calls[c].status, metricsUp)
           newOrders == getAllOrders(remoteOrders, localOrders, calls[c].status, ordersUp)
       IN  calls' = [calls EXCEPT ![c].pc = "served",
                        ![c].response = <<[metrics |-> newMetrics.ret[1],
                                           orders |-> newOrders.ret]>>]
    /\ UNCHANGED <<dbVars, uiVars, now, last, prev>>

\* refreshData after its await: setMetrics, setOrders; when handleGenerateLink
\* awaited it, the handler goes on to clear the form.
RefreshApplied(c) ==
    /\ calls[c].op = "refreshData" /\ calls[c].pc = "served"
    /\ metrics' = calls[c].response[1].metrics
    /\ orders' = calls[c].response[1].orders
    /\ IF calls[c].arg # << >>
       THEN /\ amount' = EmptyText
            /\ simulationPending' = (amount # EmptyText)
            /\ description' = ""
       ELSE UNCHANGED <<amount, simulationPending, description>>
    /\ calls' = [calls EXCEPT ![c].pc = "done", ![c].ret = calls[c].response]
    /\ prev' = last
    /\ last' = [NoCall EXCEPT !.op = "refreshData", !.status = calls[c].status,
                              !.ret = calls[c].response]
    /\ UNCHANGED <<feeSimulation, selectedStore, stores, newStoreName, timers>>
    /\ UNCHANGED <<dbVars, now>>

\* handleGenerateLink up to await db.saveOrder(newOrder).
GenerateLinkStarted(id) ==
    /\ ~AmountRejected(ParseFloat(amount))
    /\ FreeSlots # {}
    /\ calls' = Started(FreeSlot, "handleGenerateLink",
                        <<NewOrder(id, ParseFloat(amount)[1])>>, ScopeOf(selectedStore))
    /\ now' = now + 1
    /\ UNCHANGED <<dbVars, uiVars, last, prev>>

\* handleGenerateLink after db.saveOrder resolved: refreshData(), the one of
\* the render the handler was created in.
GenerateLinkSaved(c, up) ==
    /\ calls[c].op = "handleGenerateLink" /\ calls[c].pc = "awaiting"
    /\ LET saved == saveOrder(remoteOrders, localOrders, calls[c].arg[1], up, now)
       IN  /\ remoteOrders' = saved.remote
           /\ localOrders' = saved.local
    /\ calls' = [calls EXCEPT ![c].op = "refreshData", ![c].issued = now]
    /\ now' = now + 1
    /\ UNCHANGED <<remoteStores, localStores, uiVars, last, prev>>

Init ==
    /\ remoteOrders = << >>
    /\ remoteStores = << >>
    /\ localOrders = << >>
    /\ localStores = << >>
    /\ now = StartTime
    /\ last = NoCall
    /\ prev = NoCall
    /\ amount = EmptyText
    /\ description = ""
    /\ feeSimulation = << >>
    /\ simulationPending = FALSE
    /\ selectedStore = << >>
    /\ metrics = [totalOrders |-> 0, totalRevenue |-> 0, pendingOrders |-> 0,
                  conversionRate |-> "0.0"]
    /\ orders = << >>
    /\ stores = << >>
    /\ newStoreName = ""
    /\ calls = [c \in Callers |-> Idle]
    /\ timers = MountTimers

(***************************************************************************)
(* Spec: the order gateway (save, look up, transition) under every pattern *)
(* of remote availability.                                                 *)
(***************************************************************************)
SaveOrder ==
    /\ now < StartTime + MaxCalls
    /\ \E order \in OrderInputs, up \in BOOLEAN : CallSaveOrder(order, up)

GetOrderById ==
    /\ now < StartTime + MaxCalls
    /\ \E id \in OrderIds, up \in BOOLEAN : CallGetOrderById(id, up)

UpdateStatus ==
    /\ now < StartTime + MaxCalls
    /\ \E id \in OrderIds, status \in OrderStatus, up \in BOOLEAN :
            CallUpdateStatus(id, status, up)

Next == SaveOrder \/ GetOrderById \/ UpdateStatus

Spec == Init /\ [][Next]_vars

(***************************************************************************)
(* SpecGateway: all nine operations of db.                                 *)
(***************************************************************************)
GwSaveOrder ==
    /\ now < StartTime + MaxGatewayCalls
    /\ \E order \in OrderInputs, up \in BOOLEAN : CallSaveOrder(order, up)

GwGetOrderById ==
    /\ now < StartTime + MaxGatewayCalls
    /\ \E id \in OrderIds, up \in BOOLEAN : CallGetOrderById(id, up)

GwUpdateStatus ==
    /\ now < StartTime + MaxGatewayCalls
    /\ \E id \in OrderIds, status \in OrderStatus, up \in BOOLEAN :
            CallUpdateStatus(id, status, up)

GwGetAllOrders ==
    /\ now < StartTime + MaxGatewayCalls
    /\ \E storeId \in Scopes, up \in BOOLEAN : CallGetAllOrders(storeId, up)

GwGetMetrics ==
    /\ now < StartTime + MaxGatewayCalls
    /\ \E storeId \in Scopes, up \in BOOLEAN : CallGetMetrics(storeId, up)

GwGetStores ==
    /\ now < StartTime + MaxGatewayCalls
    /\ \E up \in BOOLEAN : CallGetStores(up)

GwGetStoreById ==
    /\ now < StartTime + MaxGatewayCalls
    /\ \E id \in StoreIds, up \in BOOLEAN : CallGetStoreById(id, up)

GwCreateStore ==
    /\ now < StartTime + MaxGatewayCalls
    /\ \E store \in StoreInputs, up \in BOOLEAN : CallCreateStore(store, up)

GwUpdateStore ==
    /\ now < StartTime + MaxGatewayCalls
    /\ \E store \in StoreUpdates, up \in BOOLEAN : CallUpdateStore(store, up)

NextGateway ==
    \/ GwSaveOrder \/ GwGetOrderById \/ GwUpdateStatus \/ GwGetAllOrders \/ GwGetMetrics
    \/ GwGetStores \/ GwGetStoreById \/ GwCreateStore \/ GwUpdateStore

SpecGateway == Init /\ [][NextGateway]_vars

(***************************************************************************)
(* SpecDashboard: the link form of the dashboard, beside another caller of *)
(* db.saveOrder.                                                           *)
(***************************************************************************)
LinkAmounts == {EmptyText, Numeral(MinAmount - 1), Numeral(MinAmount),
                Numeral(MaxAmount), Numeral(MaxAmount + 1)}

TypeAmount == \E text \in LinkAmounts : SetAmount(text)

TypeDescription == \E text \in {"", "Pedido"} : SetDescription(text)

HandleGenerateLink ==
    /\ now < StartTime + MaxDashboardCalls
    /\ SubmitEnabled
    /\ \E id \in FreshOrderIds, saveUp \in BOOLEAN, metricsUp \in BOOLEAN,
          ordersUp \in BOOLEAN :
            handleGenerateLink(id, saveUp, metricsUp, ordersUp)

\* What the other caller saves: the first order, within and below the range.
DashOrderInputs == {order \in OrderInputs : order.id = "o1" /\ order.amount <= 2000}

DashSaveOrder ==
    /\ now < StartTime + MaxDashboardCalls
    /\ \E order \in DashOrderInputs, up \in BOOLEAN : CallSaveOrder(order, up)

NextDashboard ==
    TypeAmount \/ TypeDescription \/ SimulationEffect \/ HandleGenerateLink
        \/ DashSaveOrder

SpecDashboard == Init /\ [][NextDashboard]_vars

(***************************************************************************)
(* SpecFee: the fee simulation on amounts around zero and around the three *)
(* thresholds.                                                             *)
(***************************************************************************)
Around(cents) == (cents - FeeWindow)..(cents + FeeWindow)

FeeAmounts ==
    {EmptyText} \cup
    {Numeral(c) : c \in Around(0) \cup Around(MinAmount) \cup Around(FlatFeeBelow)
                            \cup Around(MaxAmount)}

FeeTypeAmount == \E text \in FeeAmounts : SetAmount(text)

NextFee == FeeTypeAmount \/ SimulationEffect

SpecFee == Init /\ [][NextFee]_vars

(***************************************************************************)
(* SpecStores: the stores view beside the link form: stores are created,   *)
(* entered and left, and links are generated for the store entered.        *)
(***************************************************************************)
\* Calls and handler runs in one behaviour of SpecStores.
MaxStoreCalls == 2

\* What is typed into the store-name field: nothing, blanks, a name between
\* blanks.
NameTexts == {"", "  ", " Loja 1 "}

TypeStoreName == \E text \in NameTexts : SetNewStoreName(text)

\* The form is shown in the stores view, while no store is entered.
HandleCreateStore ==
    /\ now < StartTime + MaxStoreCalls
    /\ selectedStore = << >>
    /\ \E id \in FreshStoreIds, createUp \in BOOLEAN, loadUp \in BOOLEAN :
            handleCreateStore(id, createUp, loadUp)

\* The button of a store listed, shown while no store is entered.
HandleEnterStore ==
    /\ selectedStore = << >>
    /\ \E i \in 1..Len(stores) : handleEnterStore(stores[i])

HandleExitStore == selectedStore # << >> /\ handleExitStore

StoresTypeAmount == \E text \in {Numeral(2000)} : SetAmount(text)

StoresGenerateLink ==
    /\ now < StartTime + MaxStoreCalls
    /\ SubmitEnabled
    /\ \E id \in FreshOrderIds, saveUp \in BOOLEAN, metricsUp \in BOOLEAN,
          ordersUp \in BOOLEAN :
            handleGenerateLink(id, saveUp, metricsUp, ordersUp)

NextStores ==
    TypeStoreName \/ HandleCreateStore \/ HandleEnterStore \/ HandleExitStore
        \/ StoresTypeAmount \/ SimulationEffect \/ StoresGenerateLink

SpecStores == Init /\ [][NextStores]_vars

(***************************************************************************)
(* SpecMetrics: the summary of the orders that both targets hold, for each *)
(* scope, from the remote endpoint and from the local fallback.            *)
(***************************************************************************)
\* Orders held by a target at the start of a behaviour of SpecMetrics.
MaxOrders == 3

\* What varies between the orders held: amount, status and store.
OrderTraits ==
    [amount : {2000, 10000}, status : {"pending", "completed", "expired"}, store : Scopes]

\* The collections of n orders, created before the dashboard started.
OrderCollections(n) ==
    { [i \in 1..n |->
            MkOrder("o" \o ToString(i), traits[i].amount, "Link Rapido", traits[i].status,
                    traits[i].store, traits[i].store, NoVal, NoVal, NoVal, i - MaxOrders)] :
        traits \in [1..n -> OrderTraits] }

Reverse(coll) == [i \in 1..Len(coll) |-> coll[Len(coll) + 1 - i]]

\* Both targets hold the same orders, the local cache in the opposite order.
InitMetrics ==
    /\ \E n \in 0..MaxOrders : \E coll \in OrderCollections(n) :
            /\ remoteOrders = coll
            /\ localOrders = Reverse(coll)
    /\ remoteStores = << >>
    /\ localStores = << >>
    /\ now = StartTime
    /\ last = NoCall
    /\ prev = NoCall
    /\ amount = EmptyText
    /\ description = ""
    /\ feeSimulation = << >>
    /\ simulationPending = FALSE
    /\ selectedStore = << >>
    /\ metrics = [totalOrders |-> 0, totalRevenue |-> 0, pendingOrders |-> 0,
                  conversionRate |-> "0.0"]
    /\ orders = << >>
    /\ stores = << >>
    /\ newStoreName = ""
    /\ calls = [c \in Callers |-> Idle]
    /\ timers = MountTimers

\* The summary is asked for once, for any scope, the remote up or down.
MetricsGetMetrics ==
    /\ last = NoCall
    /\ \E storeId \in Scopes, up \in BOOLEAN : CallGetMetrics(storeId, up)

NextMetrics == MetricsGetMetrics

SpecMetrics == InitMetrics /\ [][NextMetrics]_vars

(***************************************************************************)
(* SpecSettings: two stores were created earlier, each on the remote or in *)
(* the local cache, and both targets hold orders of theirs; a store is     *)
(* entered, its settings are saved and the data shown is refreshed.        *)
(***************************************************************************)
\* Runs of handleSaveStoreSettings in one behaviour of SpecSettings.
MaxSettingsCalls == 2

\* What the settings form holds when it is submitted: a key with fees of
\* 0.99 % and R$ 0,50, or nothing.
StoreSettingsForms ==
    { [apiKey |-> "key-1", feePercent |-> 99, feeFixed |-> 50],
      [apiKey |-> "", feePercent |-> 0, feeFixed |-> 0] }

\* The orders both targets hold: one completed and one pending for the first
\* store, one pending for the second.
SettingsOrders ==
    << MkOrder("o1", 10000, "Pedido", "completed", "s1", "Loja 1", NoVal, NoVal, NoVal, 1),
       MkOrder("o2", 2000, "Link Rapido", "pending", "s1", "Loja 1", NoVal, NoVal, NoVal, 2),
       MkOrder("o3", 2000, "Link Rapido", "pending", "s2", "Loja 2", NoVal, NoVal, NoVal, 2) >>

\* The targets after the two stores were created, the remote up or down for
\* each.
StoresCreated(firstUp, secondUp) ==
    LET first == createStore(<< >>, << >>, MkStore("s1", "Loja 1", NoVal, << >>, << >>, 1),
                             firstUp)
    IN  createStore(first.remote, first.local,
                    MkStore("s2", "Loja 2", NoVal, << >>, << >>, 2), secondUp)

InitSettings ==
    /\ \E firstUp \in BOOLEAN, secondUp \in BOOLEAN, loadUp \in BOOLEAN :
            LET created == StoresCreated(firstUp, secondUp)
            IN  /\ remoteStores = created.remote
                /\ localStores = created.local
                /\ stores = getStores(created.remote, created.local, loadUp).ret
    /\ remoteOrders = SettingsOrders
    /\ localOrders = SettingsOrders
    /\ now = StartTime
    /\ last = NoCall
    /\ prev = NoCall
    /\ amount = EmptyText
    /\ description = ""
    /\ feeSimulation = << >>
    /\ simulationPending = FALSE
    /\ selectedStore = << >>
    /\ metrics = [totalOrders |-> 0, totalRevenue |-> 0, pendingOrders |-> 0,
                  conversionRate |-> "0.0"]
    /\ orders = << >>
    /\ newStoreName = ""
    /\ calls = [c \in Callers |-> Idle]
    /\ timers = MountTimers

\* The settings form is shown while a store is entered.
HandleSaveStoreSettings ==
    /\ now < StartTime + MaxSettingsCalls
    /\ selectedStore # << >>
    /\ \E form \in StoreSettingsForms, up \in BOOLEAN : handleSaveStoreSettings(form, up)

\* The initial load and any other caller of db.getStores.
SettingsGetStores ==
    /\ now < StartTime + MaxSettingsCalls
    /\ \E up \in BOOLEAN : CallGetStores(up)

\* The effect on [selectedStore] and the interval it starts.
RefreshData == \E metricsUp \in BOOLEAN, ordersUp \in BOOLEAN : refreshData(metricsUp, ordersUp)

NextSettings ==
    HandleEnterStore \/ HandleExitStore \/ HandleSaveStoreSettings \/ RefreshData
        \/ SettingsGetStores

SpecSettings == InitSettings /\ [][NextSettings]_vars

(***************************************************************************)
(* SpecListing: the listing of the orders that the targets hold, for each  *)
(* scope, from the remote endpoint and from the local fallback.            *)
(***************************************************************************)
\* Orders held by a target at the start of a behaviour of SpecListing.
MaxListed == 3

\* What varies between the orders listed: the time of creation (two orders
\* may share it) and the store.
ListedTraits == [created : {1, 2}, store : {NoVal, "s1"}]

ListedCollections(n) ==
    { [i \in 1..n |->
            MkOrder("o" \o ToString(i), 2000, "Link Rapido", "pending",
                    traits[i].store, traits[i].store, NoVal, NoVal, NoVal,
                    traits[i].created)] :
        traits \in [1..n -> ListedTraits] }

\* Both targets hold the same orders, the remote in the opposite order.
InitListing ==
    /\ \E n \in 0..MaxListed : \E coll \in ListedCollections(n) :
            /\ localOrders = coll
            /\ remoteOrders = Reverse(coll)
    /\ remoteStores = << >>
    /\ localStores = << >>
    /\ now = StartTime
    /\ last = NoCall
    /\ prev = NoCall
    /\ amount = EmptyText
    /\ description = ""
    /\ feeSimulation = << >>
    /\ simulationPending = FALSE
    /\ selectedStore = << >>
    /\ metrics = [totalOrders |-> 0, totalRevenue |-> 0, pendingOrders |-> 0,
                  conversionRate |-> "0.0"]
    /\ orders = << >>
    /\ stores = << >>
    /\ newStoreName = ""
    /\ calls = [c \in Callers |-> Idle]
    /\ timers = MountTimers

\* The listing is asked for once, for any scope, the remote up or down.
ListingGetAllOrders ==
    /\ last = NoCall
    /\ \E storeId \in Scopes, up \in BOOLEAN : CallGetAllOrders(storeId, up)

NextListing == ListingGetAllOrders

SpecListing == InitListing /\ [][NextListing]_vars

(***************************************************************************)
(* SpecCalls: two callers whose gateway calls overlap.                     *)
(***************************************************************************)
\* Calls issued in one behaviour of SpecCalls.
MaxIssued == 2

\* The orders saved: a link of no store, the same link as a store's order
\* with customer and payment data, and a second link.
CallOrders ==
    { MkOrder("o1", 2000, "Link Rapido", "pending", NoVal, NoVal, NoVal, NoVal, NoVal, 1),
      MkOrder("o1", 10000, "Pedido", "pending", "s1", "Loja 1", "Ana", NoVal, "pix1", 1),
      MkOrder("o2", 2000, "Link Rapido", "pending", NoVal, NoVal, NoVal, NoVal, NoVal, 2) }

IssueSaveOrder ==
    /\ now < StartTime + MaxIssued
    /\ \E c \in Callers, order \in CallOrders :
            Issue(c, "saveOrder", order.id, <<order>>, NoVal)

IssueUpdateStatus ==
    /\ now < StartTime + MaxIssued
    /\ \E c \in Callers : Issue(c, "updateStatus", "o1", << >>, "completed")

IssueGetAllOrders ==
    /\ now < StartTime + MaxIssued
    /\ \E c \in Callers : Issue(c, "getAllOrders", NoVal, << >>, NoVal)

IssueCreateStore ==
    /\ now < StartTime + MaxIssued
    /\ \E c \in Callers, store \in {s \in StoreInputs : s.id = "s1"} :
            Issue(c, "createStore", store.id, <<store>>, NoVal)

IssueUpdateStore ==
    /\ now < StartTime + MaxIssued
    /\ \E c \in Callers, store \in {s \in StoreUpdates : s.id = "s1"} :
            Issue(c, "updateStore", store.id, <<store>>, NoVal)

RemoteServes == \E c \in Callers : Serve(c)

CallerReceives == \E c \in Callers : Receive(c)

AwaitRejects == \E c \in Callers : Throw(c)

CatchRuns == \E c \in Callers : Catch(c)

NextCalls ==
    \/ IssueSaveOrder \/ IssueUpdateStatus \/ IssueGetAllOrders \/ IssueCreateStore
    \/ IssueUpdateStore
    \/ RemoteServes \/ CallerReceives \/ AwaitRejects \/ CatchRuns

SpecCalls == Init /\ [][NextCalls]_vars

(***************************************************************************)
(* SpecSummary: the remote computes a summary query by query while another *)
(* caller saves an order or changes a status.                              *)
(***************************************************************************)
\* The remote and the local cache hold one pending order at the start.
InitSummary ==
    /\ remoteOrders =
            <<MkOrder("o1", 2000, "Link Rapido", "pending", NoVal, NoVal, NoVal, NoVal,
                      NoVal, 1)>>
    /\ localOrders = remoteOrders
    /\ remoteStores = << >>
    /\ localStores = << >>
    /\ now = StartTime
    /\ last = NoCall
    /\ prev = NoCall
    /\ amount = EmptyText
    /\ description = ""
    /\ feeSimulation = << >>
    /\ simulationPending = FALSE
    /\ selectedStore = << >>
    /\ metrics = [totalOrders |-> 0, totalRevenue |-> 0, pendingOrders |-> 0,
                  conversionRate |-> "0.0"]
    /\ orders = << >>
    /\ stores = << >>
    /\ newStoreName = ""
    /\ calls = [c \in Callers |-> Idle]
    /\ timers = MountTimers

IssueGetMetrics ==
    /\ now < StartTime + MaxIssued
    /\ \E c \in Callers, storeId \in {NoVal, "s1"} :
            Issue(c, "getMetrics", NoVal, << >>, storeId)

\* The remote handles a write in one step.
RemoteServesWrite == \E c \in Callers : calls[c].op # "getMetrics" /\ Serve(c)

RemoteCountsTotal == \E c \in Callers : CountTotal(c)

RemoteCountsPending == \E c \in Callers : CountPending(c)

RemoteSumsRevenue == \E c \in Callers : SumRevenue(c)

RemoteCountsCompleted == \E c \in Callers : CountCompleted(c)

NextSummary ==
    \/ IssueGetMetrics \/ IssueSaveOrder \/ IssueUpdateStatus
    \/ RemoteServesWrite
    \/ RemoteCountsTotal \/ RemoteCountsPending \/ RemoteSumsRevenue
    \/ RemoteCountsCompleted
    \/ CallerReceives \/ AwaitRejects \/ CatchRuns

SpecSummary == InitSummary /\ [][NextSummary]_vars

(***************************************************************************)
(* SpecPolling: the dashboard with its refresh cycle.  A store is listed,  *)
(* the targets hold an order of it, an amount is typed in the link form.   *)
(***************************************************************************)
\* Refreshes and handler runs started in one behaviour of SpecPolling.
MaxPolls == 4

PollingStore == MkStore("s1", "Loja 1", NoVal, << >>, << >>, 1)

PollingOrders ==
    <<MkOrder("o1", 10000, "Pedido", "completed", "s1", "Loja 1", NoVal, NoVal, NoVal, 1)>>

InitPolling ==
    /\ remoteOrders = PollingOrders
    /\ localOrders = PollingOrders
    /\ remoteStores = <<PollingStore>>
    /\ localStores = << >>
    /\ now = StartTime
    /\ last = NoCall
    /\ prev = NoCall
    /\ amount = Numeral(2000)
    /\ description = ""
    /\ feeSimulation = Simulate(Numeral(2000))
    /\ simulationPending = FALSE
    /\ selectedStore = << >>
    /\ metrics = GetMetrics(PollingOrders, NoVal).body[1]
    /\ orders = GetOrders(PollingOrders, NoVal).body
    /\ stores = <<PollingStore>>
    /\ newStoreName = ""
    /\ calls = [c \in Callers |-> Idle]
    /\ timers = MountTimers

PollEnterStore ==
    /\ now < StartTime + MaxPolls
    /\ \E i \in 1..Len(stores) : EnterStoreAndRefresh(stores[i])

PollExitStore ==
    /\ now < StartTime + MaxPolls
    /\ ExitStoreAndRefresh

PollTimerTick ==
    /\ now < StartTime + MaxPolls
    /\ \E i \in 1..Len(timers) : TimerTick(i)

PollRefreshAnswered ==
    \E c \in Callers, metricsUp \in BOOLEAN, ordersUp \in BOOLEAN :
        RefreshAnswered(c, metricsUp, ordersUp)

PollRefreshApplied == \E c \in Callers : RefreshApplied(c)

PollGenerateLinkStarted ==
    /\ now < StartTime + MaxPolls
    /\ \A c \in Callers : calls[c].op = "handleGenerateLink" => calls[c].pc = "done"
    /\ \E id \in FreshOrderIds : GenerateLinkStarted(id)

PollGenerateLinkSaved == \E c \in Callers, up \in BOOLEAN : GenerateLinkSaved(c, up)

NextPolling ==
    \/ PollEnterStore \/ PollExitStore \/ PollTimerTick
    \/ PollRefreshAnswered \/ PollRefreshApplied
    \/ PollGenerateLinkStarted \/ PollGenerateLinkSaved

SpecPolling == InitPolling /\ [][NextPolling]_vars

(***************************************************************************)
(* Properties of the order gateway.                                        *)
(***************************************************************************)
Terminal == OrderStatus \ {"pending"}

\* The collection of orders a target holds.
Target(via) == IF via = "remote" THEN remoteOrders ELSE localOrders

CountId(coll, id) == Cardinality({i \in 1..Len(coll) : coll[i].id = id})

StatusOf(coll, id) ==
    IF FindIndex(coll, id) > 0 THEN coll[FindIndex(coll, id)].status ELSE NoVal

EqualExceptUpdatedAt(a, b) == [a EXCEPT !.updatedAt = 0] = [b EXCEPT !.updatedAt = 0]

\* The status a write asks for.
Requested(call) ==
    IF call.op = "updateStatus" THEN call.status
    ELSE IF call.op = "saveOrder" THEN call.arg[1].status
    ELSE NoVal

\* C1 (as claimed): a getOrderById that follows a saveOrder of the same id
\* returns an order equal to the saved one on every field but updatedAt,
\* whichever targets answered the two calls and whether or not the id was
\* stored before.
RoundTrip ==
    (prev.op = "saveOrder" /\ last.op = "getOrderById" /\ last.id = prev.id)
        => /\ last.ret # << >>
           /\ EqualExceptUpdatedAt(last.ret[1], prev.arg[1])

\* C2: no target ever holds two orders with one id, and after a saveOrder
\* the target that answered holds exactly one order with that id, carrying
\* the amount of that call (the later one, when the id was saved before).
UpsertWithoutDuplicates ==
    /\ \A id \in OrderIds :
            CountId(remoteOrders, id) <= 1 /\ CountId(localOrders, id) <= 1
    /\ last.op = "saveOrder" =>
            /\ CountId(Target(last.via), last.id) = 1
            /\ Target(last.via)[FindIndex(Target(last.via), last.id)].amount
                    = last.arg[1].amount

\* Two saves of one id with different amounts, answered by the same target,
\* have left one order there.
SavedTwice ==
    /\ prev.op = "saveOrder" /\ last.op = "saveOrder"
    /\ last.id = prev.id /\ last.via = prev.via
    /\ last.arg[1].amount # prev.arg[1].amount
    /\ CountId(Target(last.via), last.id) = 1

\* C3 (as claimed): a getOrderById that follows an updateStatus of the same
\* id and finds the order returns it with the requested status and with
\* updatedAt set to the time of the update, whichever targets answered.
StatusReadBack ==
    (/\ prev.op = "updateStatus" /\ ~prev.threw
     /\ last.op = "getOrderById" /\ last.id = prev.id /\ last.ret # << >>)
        => /\ last.ret[1].status = prev.status
           /\ last.ret[1].updatedAt = now - 2

\* C4 (as claimed): an updateStatus for an id that neither target holds is
\* reported to the caller as a failure.
TransitionNotFound ==
    (/\ last.op = "updateStatus"
     /\ FindIndex(remoteOrders, last.id) = 0
     /\ FindIndex(localOrders, last.id) = 0)
        => last.threw

PermissiveOverwrite ==
    (last.op = "updateStatus" /\ FindIndex(Target(last.via), last.id) > 0)
        => /\ ~last.threw
           /\ StatusOf(Target(last.via), last.id) = last.status

\* completed, then refunded, on the same target.
CompletedThenRefunded ==
    /\ prev.op = "updateStatus" /\ prev.status = "completed"
    /\ last.op = "updateStatus" /\ last.status = "refunded"
    /\ last.id = prev.id /\ last.via = prev.via
    /\ StatusOf(Target(last.via), last.id) = "refunded"

(***************************************************************************)
(* Properties of the whole gateway (SpecGateway).                          *)
(***************************************************************************)
GatewayOps ==
    {"getStores", "getStoreById", "createStore", "updateStore", "getAllOrders",
     "getOrderById", "saveOrder", "updateStatus", "getMetrics"}

\* The positions of the local orders in a scope.
LocalInScope(storeId) ==
    {i \in 1..Len(localOrders) : storeId = NoVal \/ localOrders[i].store_id = storeId}

RECURSIVE SumAt(_, _)
SumAt(coll, positions) ==
    IF positions = {} THEN 0
    ELSE LET i == CHOOSE j \in positions : TRUE
         IN  coll[i].amount + SumAt(coll, positions \ {i})

\* ret is what a lookup of id in coll yields.
IsLookup(ret, coll, id) ==
    IF \E i \in 1..Len(coll) : coll[i].id = id
    THEN Len(ret) = 1 /\ ret[1].id = id /\ \E i \in 1..Len(coll) : coll[i] = ret[1]
    ELSE ret = << >>

\* C7: a gateway call whose remote attempt failed completes without raising,
\* and what it returns (and, for a write, what the local cache then holds) is
\* the outcome of the same operation on the local cache.
FallbackIsSilent ==
    (last.op \in GatewayOps /\ last.via # "remote") =>
        /\ last.via = "local"
        /\ ~last.threw
        /\ last.op = "getStores" => last.ret = localStores
        /\ last.op = "getStoreById" => IsLookup(last.ret, localStores, last.id)
        /\ last.op = "createStore" =>
                /\ last.ret = last.arg
                /\ localStores # << >> /\ localStores[Len(localStores)] = last.arg[1]
        /\ last.op = "updateStore" =>
                IF last.ret = << >>
                THEN \A i \in 1..Len(localStores) : localStores[i].id # last.id
                ELSE /\ last.ret = last.arg
                     /\ \E i \in 1..Len(localStores) : localStores[i] = last.arg[1]
        /\ last.op = "getAllOrders" =>
                /\ Len(last.ret) = Cardinality(LocalInScope(last.status))
                /\ \A i \in LocalInScope(last.status) :
                        \E j \in 1..Len(last.ret) : last.ret[j] = localOrders[i]
        /\ last.op = "getOrderById" => IsLookup(last.ret, localOrders, last.id)
        /\ last.op = "saveOrder" =>
                /\ last.ret = <<[last.arg[1] EXCEPT !.updatedAt = now - 1]>>
                /\ \E i \in 1..Len(localOrders) : localOrders[i] = last.ret[1]
        /\ last.op = "updateStatus" =>
                /\ last.ret = << >>
                /\ \A i \in 1..Len(localOrders) :
                        localOrders[i].id = last.id => localOrders[i].status = last.status
        /\ last.op = "getMetrics" =>
                LET scope == LocalInScope(last.status)
                    done == {i \in scope : localOrders[i].status = "completed"}
                IN  /\ Len(last.ret) = 1
                    /\ last.ret[1].totalOrders = Cardinality(scope)
                    /\ last.ret[1].pendingOrders =
                            Cardinality({i \in scope : localOrders[i].status = "pending"})
                    /\ last.ret[1].totalRevenue = SumAt(localOrders, done)
                    /\ scope = {} => last.ret[1].conversionRate = "0.0"

\* The remote was down for a summary, and the local cache had an order to count.
SummaryFromLocalCache ==
    /\ last.op = "getMetrics" /\ last.via = "local"
    /\ last.ret[1].totalOrders > 0

(***************************************************************************)
(* Properties of the link form (SpecDashboard).                            *)
(***************************************************************************)
\* The text is no number, or a number outside [10, 6000].
OutOfRange(text) ==
    \/ text.kind # "number"
    \/ text.cents < 1000
    \/ text.cents > 600000

\* C8: a run of handleGenerateLink on an amount that is no number or lies
\* outside [10, 6000] shows the alert, makes no gateway call and leaves the
\* remote collections and the local cache as they were.
InvalidAmountPersistsNothing ==
    [][(last'.op = "handleGenerateLink" /\ now' # now /\ OutOfRange(amount))
            => /\ UNCHANGED dbVars
               /\ last'.alert # NoVal
               /\ last'.via = "none"
               /\ last'.arg = << >>]_vars

\* The handler rejected an amount while orders were stored.
RejectedWithOrdersStored ==
    /\ last.op = "handleGenerateLink" /\ last.alert # NoVal
    /\ Len(remoteOrders) + Len(localOrders) > 0

\* C9 (as claimed): every order stored in either target has an amount within
\* [10, 6000].
AmountInvariant ==
    \A via \in {"remote", "local"} : \A i \in 1..Len(Target(via)) :
        Target(via)[i].amount >= 1000 /\ Target(via)[i].amount <= 600000

\* C9 (amended): every order that handleGenerateLink persists has an amount
\* within [10, 6000], in the order it builds and in the record the answering
\* target stores.
LinkAmountWithinRange ==
    (last.op = "handleGenerateLink" /\ last.arg # << >>) =>
        /\ last.arg[1].amount >= 1000 /\ last.arg[1].amount <= 600000
        /\ FindIndex(Target(last.via), last.id) > 0
        /\ Target(last.via)[FindIndex(Target(last.via), last.id)].amount
                = last.arg[1].amount

\* A link for the largest amount allowed was persisted.
LinkAtMaximum ==
    /\ last.op = "handleGenerateLink" /\ last.arg # << >>
    /\ last.arg[1].amount = 600000
    /\ FindIndex(Target(last.via), last.id) > 0

(***************************************************************************)
(* Properties of the fee simulation (SpecFee).                             *)
(***************************************************************************)
\* C10: once the simulation effect has run on a numeric amount, isValid is
\* true exactly when 10 <= amount <= 6000; below 10 the message is the
\* minimum violation, above 6000 the maximum violation.
AmountValidity ==
    (~simulationPending /\ amount.kind = "number") =>
        /\ feeSimulation # << >>
        /\ feeSimulation[1].isValid = (amount.cents >= 1000 /\ amount.cents <= 600000)
        /\ amount.cents < 1000 =>
                feeSimulation[1].message = "Valor minimo por transacao e R$ 10,00"
        /\ amount.cents > 600000 =>
                feeSimulation[1].message = "Valor maximo por transacao e R$ 6.000,00"

\* R$ 6000,01 was evaluated and found above the maximum.
AboveMaximumEvaluated ==
    /\ ~simulationPending /\ amount = Numeral(600001)
    /\ feeSimulation # << >> /\ ~feeSimulation[1].isValid

\* C11: once the simulation effect has run on a numeric amount, in range or
\* not, the fee is 2 % of the amount plus R$ 1,00 when the amount is below
\* R$ 50,00 and 2 % of the amount from R$ 50,00 on, the net is the amount less
\* the fee, and a simulation is shown (nothing was raised).  fee and net are
\* in hundredths of a cent.
FeeTiers ==
    (~simulationPending /\ amount.kind = "number") =>
        /\ feeSimulation # << >>
        /\ amount.cents < 5000 => feeSimulation[1].fee = (2 * amount.cents) + 10000
        /\ amount.cents >= 5000 => feeSimulation[1].fee = 2 * amount.cents
        /\ feeSimulation[1].net = (100 * amount.cents) - feeSimulation[1].fee

\* R$ 50,00 was evaluated: the fee is R$ 1,00, the percentage alone.
FeeAtThreshold ==
    /\ ~simulationPending /\ amount = Numeral(5000)
    /\ feeSimulation # << >> /\ feeSimulation[1].fee = 10000

(***************************************************************************)
(* Properties of the stores view and the links of a store (SpecStores).    *)
(***************************************************************************)
\* C12: an order that handleGenerateLink creates is stored, in the target that
\* answered, with status pending and with the id and the name of the store
\* that was selected when the handler ran as its store_id and store_name, both
\* absent when no store was selected.
CreatedOrderSnapshot ==
    [][(last'.op = "handleGenerateLink" /\ now' # now /\ last'.arg # << >>) =>
            LET target == IF last'.via = "remote" THEN remoteOrders' ELSE localOrders'
                i == FindIndex(target, last'.id)
            IN  /\ i > 0
                /\ target[i].status = "pending"
                /\ IF selectedStore = << >>
                   THEN target[i].store_id = NoVal /\ target[i].store_name = NoVal
                   ELSE /\ target[i].store_id = selectedStore[1].id
                        /\ target[i].store_name = selectedStore[1].name]_vars

\* A link was created for the store entered and the remote stored it.
LinkOfEnteredStore ==
    /\ last.op = "handleGenerateLink" /\ last.via = "remote"
    /\ selectedStore # << >>
    /\ FindIndex(remoteOrders, last.id) > 0
    /\ remoteOrders[FindIndex(remoteOrders, last.id)].store_id = selectedStore[1].id
    /\ remoteOrders[FindIndex(remoteOrders, last.id)].store_name = selectedStore[1].name

(***************************************************************************)
(* Properties of the summary (SpecMetrics).                                *)
(***************************************************************************)
\* The positions in coll of the orders in a scope.
InScope(coll, storeId) ==
    {i \in 1..Len(coll) : storeId = NoVal \/ coll[i].store_id = storeId}

\* The positions in coll of the orders in a scope that have a status.
InScopeWith(coll, storeId, status) ==
    {i \in InScope(coll, storeId) : coll[i].status = status}

\* C13: totalRevenue of a summary is the sum of the amounts of the orders in
\* scope whose status is completed, in the target that answered, remote or
\* local; no other order adds to it.
RevenueOfCompletedOnly ==
    last.op = "getMetrics" =>
        /\ Len(last.ret) = 1
        /\ last.ret[1].totalRevenue =
                SumAt(Target(last.via), InScopeWith(Target(last.via), last.status, "completed"))

\* The remote summed the completed order of a store that also has an order
\* that is not completed, while another completed order lies outside the scope.
RevenueAmongOtherOrders ==
    /\ last.op = "getMetrics" /\ last.via = "remote" /\ last.status = "s1"
    /\ Cardinality(InScopeWith(remoteOrders, "s1", "completed")) = 1
    /\ Cardinality(InScope(remoteOrders, "s1")) = 2
    /\ Cardinality(InScopeWith(remoteOrders, NoVal, "completed")) = 2
    /\ last.ret[1].totalRevenue = 10000

\* C14: totalOrders of a summary is the number of orders in scope (those of
\* the scope's store, all orders when no scope is given) and pendingOrders the
\* number of those whose status is pending.
CountsInScope ==
    last.op = "getMetrics" =>
        /\ Len(last.ret) = 1
        /\ last.ret[1].totalOrders = Cardinality(InScope(Target(last.via), last.status))
        /\ last.ret[1].pendingOrders =
                Cardinality(InScopeWith(Target(last.via), last.status, "pending"))

\* The local cache counted the orders of a store, one of them pending, while
\* a pending order lies outside the scope.
CountedWithinStore ==
    /\ last.op = "getMetrics" /\ last.via = "local" /\ last.status = "s1"
    /\ last.ret[1].totalOrders = 2 /\ last.ret[1].pendingOrders = 1
    /\ Cardinality(InScopeWith(localOrders, NoVal, "pending")) = 2

\* C15: with orders in scope, conversionRate is the decimal numeral, with one
\* digit after the point, of the tenth nearest to 100 * completed / total; with
\* none, the summary is 0, 0, 0 and "0.0".
ConversionRateOneDecimal ==
    last.op = "getMetrics" =>
        LET total == Cardinality(InScope(Target(last.via), last.status))
            done == Cardinality(InScopeWith(Target(last.via), last.status, "completed"))
        IN  /\ Len(last.ret) = 1
            /\ total = 0 =>
                    last.ret[1] = [totalOrders |-> 0, totalRevenue |-> 0,
                                   pendingOrders |-> 0, conversionRate |-> "0.0"]
            /\ total > 0 =>
                    \E tenths \in {(1000 * done) \div total, ((1000 * done) \div total) + 1} :
                        /\ 2 * (tenths * total - 1000 * done) <= total
                        /\ 2 * (1000 * done - tenths * total) <= total
                        /\ last.ret[1].conversionRate =
                                ToString(tenths \div 10) \o "." \o ToString(tenths % 10)

\* Two of three orders are completed: the rate is "66.7".
TwoOfThreeCompleted ==
    /\ last.op = "getMetrics"
    /\ Cardinality(InScope(Target(last.via), last.status)) = 3
    /\ Cardinality(InScopeWith(Target(last.via), last.status, "completed")) = 2
    /\ last.ret[1].conversionRate = "66.7"

\* The two targets hold the same orders, in whatever order.
SameOrders ==
    /\ Len(remoteOrders) = Len(localOrders)
    /\ {remoteOrders[i] : i \in 1..Len(remoteOrders)}
            = {localOrders[i] : i \in 1..Len(localOrders)}

\* C16: while both targets hold the same orders, the summary a getMetrics
\* call returned for a scope is, in totalOrders, totalRevenue, pendingOrders
\* and conversionRate, the summary the other path computes for that scope: the
\* local fallback when the remote answered, the remote endpoint when the
\* fallback did.
FallbackEquivalence ==
    (last.op = "getMetrics" /\ SameOrders) =>
        LET other == IF last.via = "remote"
                     THEN getMetricsLocal(localOrders, last.status)
                     ELSE GetMetrics(remoteOrders, last.status).body[1]
        IN  /\ Len(last.ret) = 1
            /\ last.ret[1].totalOrders = other.totalOrders
            /\ last.ret[1].totalRevenue = other.totalRevenue
            /\ last.ret[1].pendingOrders = other.pendingOrders
            /\ last.ret[1].conversionRate = other.conversionRate

\* The fallback summarized a store's orders, which the cache holds in another
\* order than the remote, among orders outside the scope.
FallbackSummaryOfStore ==
    /\ last.op = "getMetrics" /\ last.via = "local" /\ last.status = "s1"
    /\ SameOrders /\ remoteOrders # localOrders
    /\ last.ret[1].totalOrders = 2 /\ last.ret[1].totalRevenue > 0
    /\ Len(localOrders) = 3

(***************************************************************************)
(* Properties of the reads of the gateway (SpecGateway).                   *)
(***************************************************************************)
ReadOps == {"getMetrics", "getAllOrders", "getOrderById", "getStores", "getStoreById"}

\* C17: a call of getMetrics, getAllOrders, getOrderById, getStores or
\* getStoreById, answered by the remote or by the fallback, before or after
\* any write, leaves the remote collections and the local cache as they were.
ReadsChangeNothing ==
    [][(last'.op \in ReadOps /\ now' # now) => UNCHANGED dbVars]_vars

\* A listing was served by the fallback right after a write to the cache.
ListedAfterWrite ==
    /\ last.op = "getAllOrders" /\ last.via = "local"
    /\ prev.op = "saveOrder" /\ prev.via = "local"
    /\ Len(localOrders) > 0

(***************************************************************************)
(* Properties of the stores (SpecGateway, SpecStores).                     *)
(***************************************************************************)
StoresOf(via) == IF via = "remote" THEN remoteStores ELSE localStores

\* C18: neither the remote collection nor the local cache holds two stores
\* with the same id.
StoreIdsUnique ==
    \A via \in {"remote", "local"} :
        \A i, j \in 1..Len(StoresOf(via)) :
            StoresOf(via)[i].id = StoresOf(via)[j].id => i = j

\* C19 (as claimed): an order stored in a target with a store_id has its
\* store in the same target.
ReferentialIntegrity ==
    \A via \in {"remote", "local"} : \A i \in 1..Len(Target(via)) :
        Target(via)[i].store_id # NoVal =>
            \E j \in 1..Len(StoresOf(via)) : StoresOf(via)[j].id = Target(via)[i].store_id

\* C19 (amended): an order created by handleGenerateLink with a store_id has
\* its store, under that id and the name the order carries, in the remote
\* collection or in the local cache.
LinkReferencesKnownStore ==
    \A via \in {"remote", "local"} : \A i \in 1..Len(Target(via)) :
        Target(via)[i].store_id # NoVal =>
            \E held \in {"remote", "local"} : \E j \in 1..Len(StoresOf(held)) :
                /\ StoresOf(held)[j].id = Target(via)[i].store_id
                /\ StoresOf(held)[j].name = Target(via)[i].store_name

\* The remote stores a link of a store that only the local cache holds.
LinkStoredApartFromItsStore ==
    \E i \in 1..Len(remoteOrders) :
        /\ remoteOrders[i].store_id # NoVal
        /\ \A j \in 1..Len(remoteStores) : remoteStores[j].id # remoteOrders[i].store_id
        /\ \E j \in 1..Len(localStores) : localStores[j].id = remoteOrders[i].store_id

\* The text holds nothing but blanks.
AllBlanks(text) == \A k \in 1..Len(text) : SubSeq(text, k, k) = " "

\* C20: no store whose name is empty or all blanks is ever held by the remote
\* collection or the local cache, and a run of handleCreateStore on such a
\* name makes no gateway call and leaves both targets as they were.
BlankStoreNameRejected ==
    /\ [](\A via \in {"remote", "local"} : \A i \in 1..Len(StoresOf(via)) :
            ~AllBlanks(StoresOf(via)[i].name))
    /\ [][(last'.op = "handleCreateStore" /\ now' # now /\ AllBlanks(newStoreName)) =>
            /\ UNCHANGED dbVars
            /\ last'.via = "none"
            /\ last'.arg = << >>]_vars

\* A name of blanks was submitted and refused while a store was listed.
BlanksSubmitted ==
    /\ last.op = "handleCreateStore" /\ last.arg = << >>
    /\ newStoreName = "  "
    /\ Len(stores) > 0

(***************************************************************************)
(* Properties of the store settings and the financial card (SpecSettings). *)
(***************************************************************************)
\* C21: a run of handleSaveStoreSettings leaves, in both targets, the number
\* of stores and every store's id, name, description and createdAt as they
\* were, changes no store but the one entered, and changes no order.
SettingsChangeOnlyKeyAndFees ==
    [][(last'.op = "handleSaveStoreSettings" /\ now' # now) =>
            /\ UNCHANGED <<remoteOrders, localOrders>>
            /\ Len(remoteStores') = Len(remoteStores)
            /\ Len(localStores') = Len(localStores)
            /\ \A i \in 1..Len(remoteStores) :
                    /\ remoteStores'[i].id = remoteStores[i].id
                    /\ remoteStores'[i].name = remoteStores[i].name
                    /\ remoteStores'[i].description = remoteStores[i].description
                    /\ remoteStores'[i].createdAt = remoteStores[i].createdAt
                    /\ remoteStores[i].id # selectedStore[1].id =>
                            remoteStores'[i] = remoteStores[i]
            /\ \A i \in 1..Len(localStores) :
                    /\ localStores'[i].id = localStores[i].id
                    /\ localStores'[i].name = localStores[i].name
                    /\ localStores'[i].description = localStores[i].description
                    /\ localStores'[i].createdAt = localStores[i].createdAt
                    /\ localStores[i].id # selectedStore[1].id =>
                            localStores'[i] = localStores[i]]_vars

\* The settings of one of two stores of the local cache were saved there.
SettingsSavedBesideAnotherStore ==
    /\ last.op = "handleSaveStoreSettings" /\ last.via = "local" /\ last.ret # << >>
    /\ Len(localStores) = 2
    /\ \E i \in 1..2 : localStores[i].id = last.id /\ localStores[i].apiKey = "key-1"
                         /\ localStores[i].pixFeeFixed = <<50>>

\* C22: for a store entered, estimatedFees is totalRevenue times the store's
\* fee percentage over 100 plus totalOrders times its fixed fee, an absent
\* fee counting as 0, and estimatedNet is totalRevenue less estimatedFees.
EstimatedFeesFormula ==
    selectedStore # << >> =>
        LET percent == IF selectedStore[1].pixFeePercentage = << >> THEN 0
                       ELSE selectedStore[1].pixFeePercentage[1]
            fixed == IF selectedStore[1].pixFeeFixed = << >> THEN 0
                     ELSE selectedStore[1].pixFeeFixed[1]
        IN  /\ estimatedFees = (metrics.totalRevenue * percent)
                                    + (metrics.totalOrders * fixed * 10000)
            /\ estimatedNet = (metrics.totalRevenue * 10000) - estimatedFees

FallbackOrdersNewestFirst ==
    (last.op = "getAllOrders" /\ last.via = "local") =>
        \A j \in 1..(Len(last.ret) - 1) : last.ret[j].createdAt >= last.ret[j + 1].createdAt

\* The cache holds an older order before a newer one of the same store, and
\* the listing of that store gave the newer one first.
OlderStoredFirst ==
    /\ last.op = "getAllOrders" /\ last.via = "local" /\ last.status = "s1"
    /\ Len(last.ret) = 2 /\ last.ret[1].createdAt > last.ret[2].createdAt
    /\ Len(localOrders) = 3 /\ localOrders[1].createdAt < localOrders[3].createdAt
    /\ localOrders[1].store_id = "s1" /\ localOrders[3].store_id = "s1"

\* C27: in a listing of stores answered by the local cache, each store was
\* created no earlier than the one after it.
FallbackStoresNewestFirst ==
    (last.op = "getStores" /\ last.via = "local") =>
        \A j \in 1..(Len(last.ret) - 1) : last.ret[j].createdAt >= last.ret[j + 1].createdAt

\* C28: a listing of orders holds each order of the answering target that is
\* in the scope (of the store given, or any order when none is given) once,
\* and nothing else.
ListingIsTheScope ==
    last.op = "getAllOrders" =>
        LET coll == Target(last.via)
            scope == {i \in 1..Len(coll) :
                        last.status = NoVal \/ coll[i].store_id = last.status}
        IN  /\ Len(last.ret) = Cardinality(scope)
            /\ {last.ret[j] : j \in 1..Len(last.ret)} = {coll[i] : i \in scope}

\* The remote listed the orders of a store and left out an order it holds.
ListedPartOfRemote ==
    /\ last.op = "getAllOrders" /\ last.via = "remote" /\ last.status = "s1"
    /\ Len(last.ret) = 2 /\ Len(remoteOrders) = 3

(***************************************************************************)
(* Properties of overlapping gateway calls (SpecCalls).                    *)
(***************************************************************************)
WriteOps == {"saveOrder", "updateStatus", "createStore", "updateStore"}

\* The two calls were in flight at the same time.
Concurrent(c, d) ==
    /\ calls[c].pc # "idle" /\ calls[d].pc # "idle"
    /\ calls[c].during = calls[d].issued \/ calls[d].during = calls[c].issued

SavedVia(c, via) ==
    calls[c].pc = "done" /\ calls[c].op = "saveOrder" /\ calls[c].via = via

\* What a call has done so far, by where it stands.
AttemptsOf(c) ==
    CASE calls[c].pc = "idle" -> << >>
      [] calls[c].pc \in {"awaiting", "served"} -> <<"remote">>
      [] calls[c].pc = "caught" -> <<"remote", "failed">>
      [] calls[c].pc = "done" /\ calls[c].via = "remote" -> <<"remote", "answered">>
      [] calls[c].pc = "done" /\ calls[c].via # "remote" -> <<"remote", "failed", "local">>

\* C23: every call sends one request to the remote, first; it turns to the
\* local cache only after that request failed and never sends a second one;
\* the local cache changes only in the catch branch of a call whose request
\* failed; whatever the calls before did, a call starts with the remote.
RemoteFirstAndOnce ==
    /\ [](\A c \in Callers :
            /\ calls[c].log = AttemptsOf(c)
            /\ calls[c].pc = "done" => calls[c].via \in {"remote", "local"})
    /\ [][/\ <<localOrders, localStores>>' # <<localOrders, localStores>> =>
                \E c \in Callers : /\ calls[c].log = <<"remote", "failed">>
                                   /\ calls'[c].log = <<"remote", "failed", "local">>
          /\ \A c \in Callers :
                calls'[c].issued # calls[c].issued => calls'[c].log = <<"remote">>]_vars

\* A call answered by the remote, issued after another caller's call had
\* fallen back to the local cache and returned.
RemoteTriedAfterFallback ==
    \E c, d \in Callers :
        /\ calls[c].pc = "done" /\ calls[c].via = "local"
        /\ calls[d].pc = "done" /\ calls[d].via = "remote"
        /\ calls[d].issued > calls[c].issued /\ calls[d].during = 0

\* C24 as stated: a write that fell back left the remote as it was, and an
\* order saved through the fallback is not in the remote collection.
FallbackOrderAbsentFromRemote ==
    \A c \in Callers :
        (calls[c].pc = "done" /\ calls[c].via = "local" /\ calls[c].op \in WriteOps) =>
            /\ ~calls[c].applied
            /\ calls[c].op = "saveOrder" => FindIndex(remoteOrders, calls[c].id) = 0

IdsOf(coll) == {coll[i].id : i \in 1..Len(coll)}

\* C24: no step changes both targets; the remote changes only where it
\* handles the request of a call and the local cache only in the catch branch
\* of a call, and an entity that appears in a target carries the id that this
\* call was given.
NoResynchronization ==
    [][/\ <<remoteOrders, remoteStores>>' # <<remoteOrders, remoteStores>> =>
            /\ UNCHANGED <<localOrders, localStores>>
            /\ \E c \in Callers :
                    /\ calls[c].pc = "awaiting" /\ calls'[c].pc = "served"
                    /\ calls[c].op \in WriteOps
                    /\ (IdsOf(remoteOrders') \ IdsOf(remoteOrders)) \subseteq {calls[c].id}
                    /\ (IdsOf(remoteStores') \ IdsOf(remoteStores)) \subseteq {calls[c].id}
       /\ <<localOrders, localStores>>' # <<localOrders, localStores>> =>
            /\ UNCHANGED <<remoteOrders, remoteStores>>
            /\ \E c \in Callers :
                    /\ calls[c].pc = "caught" /\ calls'[c].pc = "done"
                    /\ calls[c].op \in WriteOps
                    /\ (IdsOf(localOrders') \ IdsOf(localOrders)) \subseteq {calls[c].id}
                    /\ (IdsOf(localStores') \ IdsOf(localStores)) \subseteq {calls[c].id}]_vars

\* The remote stored an order, its answer did not arrive and the call saved
\* the order in the local cache: both targets hold it.
FallbackAfterRemoteApplied ==
    \E c \in Callers :
        /\ SavedVia(c, "local") /\ calls[c].applied
        /\ FindIndex(remoteOrders, calls[c].id) > 0
        /\ FindIndex(localOrders, calls[c].id) > 0

\* C29: after two overlapping saveOrder calls of one id that the remote both
\* answered, the remote holds one order of that id, and it is the order one
\* of the two calls supplied.
LastWriteWinsWhole ==
    \A c, d \in Callers :
        (/\ c # d /\ Concurrent(c, d)
         /\ SavedVia(c, "remote") /\ SavedVia(d, "remote")
         /\ calls[c].id = calls[d].id) =>
            /\ Cardinality({i \in 1..Len(remoteOrders) : remoteOrders[i].id = calls[c].id}) = 1
            /\ \E e \in {c, d} :
                    EqualExceptUpdatedAt(Find(remoteOrders, calls[c].id)[1], calls[e].arg[1])

\* C30: after two overlapping saveOrder calls of different ids that both fell
\* back, the local cache holds both orders as supplied.
NoLostUpdateOnFallback ==
    \A c, d \in Callers :
        (/\ c # d /\ Concurrent(c, d)
         /\ SavedVia(c, "local") /\ SavedVia(d, "local")
         /\ calls[c].id # calls[d].id) =>
            \A e \in {c, d} :
                /\ FindIndex(localOrders, calls[e].id) > 0
                /\ EqualExceptUpdatedAt(Find(localOrders, calls[e].id)[1], calls[e].arg[1])

\* Two overlapping saveOrder calls of different ids both fell back and have
\* returned; the local cache holds two orders.
BothFellBackTogether ==
    /\ Concurrent("a", "b")
    /\ SavedVia("a", "local") /\ SavedVia("b", "local")
    /\ calls["a"].id # calls["b"].id
    /\ Len(localOrders) = 2

(***************************************************************************)
(* Further properties of the order gateway.                                *)
(***************************************************************************)
\* C34: when the remote holds no order of the id asked for, getOrderById
\* answers from the local cache, whether the remote was reached (and said
\* 404) or not: the order of that id the cache holds, nothing when it holds
\* none.
NotFoundIsRemoteFailure ==
    /\ \A id \in OrderIds, up \in BOOLEAN :
            FindIndex(remoteOrders, id) = 0 =>
                LET out == getOrderById(remoteOrders, localOrders, id, up)
                IN  out.via = "local" /\ out.ret = Find(localOrders, id) /\ ~out.threw
    /\ (last.op = "getOrderById" /\ FindIndex(remoteOrders, last.id) = 0) =>
            /\ last.via = "local" /\ ~last.threw
            /\ last.ret = Find(localOrders, last.id)

\* The remote holds an order, not the one asked for; the cache holds it and
\* getOrderById returned it.
FoundInCacheOnly ==
    /\ last.op = "getOrderById"
    /\ Len(remoteOrders) > 0 /\ FindIndex(remoteOrders, last.id) = 0
    /\ FindIndex(localOrders, last.id) > 0
    /\ last.ret = <<localOrders[FindIndex(localOrders, last.id)]>>

\* C35 (as claimed): when both targets hold the same record of an id, a
\* saveOrder of that id leaves the same record (updatedAt apart) whether the
\* remote or the local cache takes it.
UpsertEquivalence ==
    \A order \in CallOrders :
        (/\ FindIndex(remoteOrders, order.id) > 0
         /\ FindIndex(localOrders, order.id) > 0
         /\ EqualExceptUpdatedAt(Find(remoteOrders, order.id)[1],
                                 Find(localOrders, order.id)[1])) =>
            EqualExceptUpdatedAt(
                Find(saveOrder(remoteOrders, localOrders, order, TRUE, now).remote, order.id)[1],
                Find(saveOrder(remoteOrders, localOrders, order, FALSE, now).local, order.id)[1])

\* C36: an updateStatus call leaves, in both targets, the number of orders,
\* every order that has another id, and every field but status and updatedAt
\* of the order that has the id; it leaves the stores as they were.
UpdateStatusFrame ==
    [][(last'.op = "updateStatus" /\ now' # now) =>
            /\ UNCHANGED <<remoteStores, localStores>>
            /\ Len(remoteOrders') = Len(remoteOrders)
            /\ Len(localOrders') = Len(localOrders)
            /\ \A i \in 1..Len(remoteOrders) :
                    /\ [remoteOrders'[i] EXCEPT !.status = "pending", !.updatedAt = 0]
                         = [remoteOrders[i] EXCEPT !.status = "pending", !.updatedAt = 0]
                    /\ remoteOrders[i].id # last'.id => remoteOrders'[i] = remoteOrders[i]
            /\ \A i \in 1..Len(localOrders) :
                    /\ [localOrders'[i] EXCEPT !.status = "pending", !.updatedAt = 0]
                         = [localOrders[i] EXCEPT !.status = "pending", !.updatedAt = 0]
                    /\ localOrders[i].id # last'.id => localOrders'[i] = localOrders[i]]_vars

\* An order of a store, held beside another order, was given a new status.
StatusChangedBesideAnotherOrder ==
    /\ last.op = "updateStatus" /\ last.status # "pending"
    /\ Len(Target(last.via)) = 2
    /\ FindIndex(Target(last.via), last.id) > 0
    /\ Find(Target(last.via), last.id)[1].store_id = "s1"
    /\ Find(Target(last.via), last.id)[1].status = last.status
    /\ Find(Target(last.via), last.id)[1].updatedAt = now - 1

(***************************************************************************)
(* Properties of the summary computed beside writes (SpecSummary).         *)
(***************************************************************************)
\* pendingOrders <= totalOrders, and conversionRate is the rate of a number
\* of completed orders that is at most totalOrders - pendingOrders.
ConsistentSummary(m) ==
    /\ m.pendingOrders <= m.totalOrders
    /\ m.totalOrders = 0 => m.conversionRate = "0.0"
    /\ m.totalOrders > 0 =>
            \E k \in 0..(m.totalOrders - m.pendingOrders) :
                m.conversionRate = ToFixed1(k, m.totalOrders)

\* C33 (as claimed): in every summary a getMetrics call returned, the pending
\* orders and the completed orders together are no more than the orders
\* counted: pendingOrders <= totalOrders, and conversionRate is the rate of a
\* number of completed orders that is at most totalOrders - pendingOrders.
SummaryCountsConsistent ==
    \A c \in Callers :
        (calls[c].op = "getMetrics" /\ calls[c].pc = "done") =>
            ConsistentSummary(calls[c].ret[1])

\* No other call was in flight while the call was.
Undisturbed(c) ==
    /\ calls[c].during = 0
    /\ \A d \in Callers \ {c} : calls[d].pc = "idle" \/ calls[d].issued < calls[c].issued

\* C33: a summary computed from one state of a target (by the local cache,
\* or by the remote with no other call in flight) has pending and completed
\* orders together within totalOrders; in a summary of the remote each count
\* is at most the number of orders of the scope that the remote holds when
\* the summary is returned, and conversionRate is the rate of such a count.
SummaryOfOneState ==
    \A c \in Callers :
        (calls[c].op = "getMetrics" /\ calls[c].pc = "done") =>
            LET m == calls[c].ret[1]
                held == Len(Query(remoteOrders, calls[c].status))
            IN  /\ (calls[c].via = "local" \/ Undisturbed(c)) => ConsistentSummary(m)
                /\ calls[c].via = "remote" =>
                        /\ m.totalOrders <= held
                        /\ m.pendingOrders <= held
                        /\ m.totalOrders = 0 => m.conversionRate = "0.0"
                        /\ m.totalOrders > 0 =>
                                \E k \in 0..held : m.conversionRate = ToFixed1(k, m.totalOrders)

\* The remote returned a summary with more pending orders than orders: an
\* order was saved between its first and its second query.
SummaryAcrossAWrite ==
    \E c \in Callers :
        /\ calls[c].op = "getMetrics" /\ calls[c].pc = "done" /\ calls[c].via = "remote"
        /\ calls[c].ret[1].pendingOrders > calls[c].ret[1].totalOrders

(***************************************************************************)
(* Properties of the refresh cycle (SpecPolling).                          *)
(***************************************************************************)
CurrentScope == ScopeOf(selectedStore)

\* In this step caller c starts a refresh.
RefreshIssued(c) ==
    calls'[c].op = "refreshData" /\ calls'[c].issued # calls[c].issued

\* At most one interval is active; a step that changes the scope leaves the
\* one interval of the new scope and starts a refresh for the new scope.
OneTimerOfTheScope ==
    /\ [](Len(timers) <= 1)
    /\ [][ScopeOf(selectedStore') # CurrentScope =>
            /\ timers' = <<[scope |-> ScopeOf(selectedStore'), created |-> now]>>
            /\ \E c \in Callers :
                    RefreshIssued(c) /\ calls'[c].status = ScopeOf(selectedStore')]_vars

\* Every refresh that starts is for the scope selected then.
RefreshesOfTheScope ==
    [][\A c \in Callers : RefreshIssued(c) => calls'[c].status = ScopeOf(selectedStore')]_vars

\* C31 (as claimed): at most one interval is active, a change of the store
\* selected replaces it by the interval of the new scope and starts a refresh
\* for the new scope, and no refresh ever starts for another scope than the
\* one selected.
PollingLoop == OneTimerOfTheScope /\ RefreshesOfTheScope

\* C32 (as claimed): once a refresh for the selected scope, started since the
\* scope was selected, has been applied, what is shown is the result of a
\* refresh for the selected scope.
ShownScopeIsCurrent ==
    (/\ last.op = "refreshData"
     /\ \E c \in Callers :
            /\ calls[c].op = "refreshData" /\ calls[c].pc = "done"
            /\ calls[c].status = CurrentScope
            /\ calls[c].issued >= timers[Len(timers)].created) =>
        last.status = CurrentScope

====
